---- MODULE Spec2Model ----
(***************************************************************************)
(* A model of the MSA MultiCat converter (package msa_converter): the      *)
(* field formatter, the five record encoders, the record builder and the   *)
(* output validator.                                                       *)
(*                                                                         *)
(* Text is a sequence of one-character strings, so that truncation,        *)
(* padding, comparison and parsing are computed character by character.    *)
(* A float is a sign, a whole part, hundredths and a thousandths digit     *)
(* (Real3 below); the floats the builder makes have no thousandths.        *)
(***************************************************************************)
EXTENDS Integers, Sequences, FiniteSets, TLC

VARIABLES df, config, now, pc, hid, bids, sids, purs, tot, output_result, rec, line,
          input_result, written, data, exit_status, again

vars == <<df, config, now, pc, hid, bids, sids, purs, tot, output_result, rec, line,
          input_result, written, data, exit_status, again>>

\* What a run leaves behind besides the records: the input validation result,
\* the bytes of the file written, the bytes returned in memory, the exit status,
\* and what a second invocation of build_records returned.
run_vars == <<input_result, written, data, exit_status, again>>

\* Nothing validated, written, returned, exited or built again yet.
NothingRun ==
    /\ input_result = <<>> /\ written = <<>> /\ data = <<>> /\ exit_status = <<>>
    /\ again = <<>>

(***************************************************************************)
(* Bounds of the model.                                                    *)
(***************************************************************************)
\* The largest number of rows of an input data frame.
MaxRows == 3

\* The widest field asked of fmt on its own.
MaxFmtWidth == 8

\* The largest number of records of one type handed to the writer.
MaxRecords == 2

(***************************************************************************)
(* Text.                                                                   *)
(***************************************************************************)
\* A character outside ASCII (e with an acute accent).
NonAscii == "é"

\* The characters the model uses, in code-point order.
Chars ==
    <<"\n", "\r", " ", "-", ".", "/", "0", "1", "2", "3", "4", "5", "6", "7", "8", "9",
      "A", "B", "C", "D", "E", "F", "G", "H", "I", "J", "K", "L", "M", "N",
      "O", "P", "Q", "R", "S", "T", "U", "V", "W", "X", "Y", "Z",
      "a", "b", "c", "d", "e", "f", "g", "h", "i", "j", "k", "l", "m", "n",
      "o", "p", "q", "r", "s", "t", "u", "v", "w", "x", "y", "z", NonAscii>>

\* The rank of a character in code-point order.
Ord(c) == CHOOSE i \in 1..Len(Chars) : Chars[i] = c

\* Python's str < str: lexicographic by code point, a proper prefix first.
RECURSIVE StrLess(_, _)
StrLess(a, b) ==
    IF b = <<>> THEN FALSE
    ELSE IF a = <<>> THEN TRUE
    ELSE IF Head(a) = Head(b) THEN StrLess(Tail(a), Tail(b))
    ELSE Ord(Head(a)) < Ord(Head(b))

\* n copies of the character c.
Rep(c, n) == [i \in 1..n |-> c]

Digits == <<"0", "1", "2", "3", "4", "5", "6", "7", "8", "9">>

IsDigit(c) == \E i \in 1..10 : Digits[i] = c

DigitVal(c) == (CHOOSE i \in 1..10 : Digits[i] = c) - 1

\* str(n) of a natural number.
RECURSIVE NatToStr(_)
NatToStr(n) ==
    IF n < 10 THEN <<Digits[n + 1]>>
    ELSE Append(NatToStr(n \div 10), Digits[(n % 10) + 1])

\* str(n) of an integer.
IntToStr(n) == IF n < 0 THEN <<"-">> \o NatToStr(0 - n) ELSE NatToStr(n)

\* int(s) of a string of digits.
RECURSIVE StrToNat(_)
StrToNat(s) ==
    IF s = <<>> THEN 0
    ELSE StrToNat(SubSeq(s, 1, Len(s) - 1)) * 10 + DigitVal(s[Len(s)])

\* Python's None, where a string is expected.
None == <<"None">>

\* An optional float (float | None): NoFloat is None, Some(x) holds the float x.
NoFloat == <<>>

Some(x) == <<x>>

(***************************************************************************)
(* Floats: sign, whole part, hundredths, and one digit of thousandths. The *)
(* whole part is billions * 10^9 + whole, with whole below 10^9.           *)
(***************************************************************************)
Real4(neg, billions, whole, cents, thousandth) ==
    [neg |-> neg, billions |-> billions, whole |-> whole, cents |-> cents,
     thousandth |-> thousandth]

\* A float below 10^9 in magnitude.
Real3(neg, whole, cents, thousandth) == Real4(neg, 0, whole, cents, thousandth)

\* A float with no more than two decimals.
Real(neg, whole, cents) == Real3(neg, whole, cents, 0)

\* float(n) of an integer n.
Float(n) == IF n < 0 THEN Real(TRUE, 0 - n, 0) ELSE Real(FALSE, n, 0)

\* The value of a float with no more than two decimals, in hundredths.
Cents(x) == IF x.neg THEN 0 - (x.whole * 100 + x.cents) ELSE x.whole * 100 + x.cents

\* The float of w + c / 100, for integers w and c of any sign.
Normalise(w, c) ==
    LET units == w + (c \div 100)
        rest  == c % 100
    IN  IF units >= 0 THEN Real(FALSE, units, rest)
        ELSE IF rest = 0 THEN Real(TRUE, 0 - units, 0)
        ELSE Real(TRUE, (0 - units) - 1, 100 - rest)

\* Whole units and hundredths of a float with no more than two decimals and
\* below 10^9, with its sign.
SignedWhole(x) == IF x.neg THEN 0 - x.whole ELSE x.whole

SignedCents(x) == IF x.neg THEN 0 - x.cents ELSE x.cents

\* x - y
Minus(x, y) == Normalise(SignedWhole(x) - SignedWhole(y), SignedCents(x) - SignedCents(y))

(***************************************************************************)
(* formatter.py                                                            *)
(***************************************************************************)
\* str.ljust(width, fill): never shortens.
LJust(s, width, fill) ==
    IF Len(s) >= width THEN s ELSE s \o Rep(fill, width - Len(s))

\* str.rjust(width, fill): never shortens.
RJust(s, width, fill) ==
    IF Len(s) >= width THEN s ELSE Rep(fill, width - Len(s)) \o s

\* A variant that pads but never cuts.
fmt_no_truncate(value, width, justify, fill) ==
    LET v == IF value = None THEN <<>> ELSE value
    IN  IF justify = "L" THEN LJust(v, width, fill) ELSE RJust(v, width, fill)

fmt(value, width, justify, fill) ==
    LET v0 == IF value = None THEN <<>> ELSE value
        v  == IF Len(v0) > width THEN SubSeq(v0, 1, width) ELSE v0
    IN  IF justify = "L" THEN LJust(v, width, fill) ELSE RJust(v, width, fill)

\* fmt with the default justify="L", fill=" ".
fmtL(value, width) == fmt(value, width, "L", " ")

\* A variant of the two-decimal rendering that drops the thousandths.
Format2fTruncating(x) ==
    (IF x.billions = 0 THEN NatToStr(x.whole)
     ELSE NatToStr(x.billions) \o RJust(NatToStr(x.whole), 9, "0"))
    \o <<".">> \o <<Digits[(x.cents \div 10) + 1], Digits[(x.cents % 10) + 1]>>

\* f"{abs_value:.2f}": the magnitude rounded to hundredths, to the nearest and
\* on a tie (a thousandths digit of 5 with nothing after it) to the even
\* hundredth, then whole part, point and two digits.
Format2f(x) ==
    LET up       == x.thousandth > 5 \/ (x.thousandth = 5 /\ x.cents % 2 = 1)
        carry    == up /\ x.cents = 99
        cents    == IF carry THEN 0 ELSE IF up THEN x.cents + 1 ELSE x.cents
        rollover == carry /\ x.whole + 1 = 1000000000
        whole    == IF rollover THEN 0 ELSE IF carry THEN x.whole + 1 ELSE x.whole
        billions == IF rollover THEN x.billions + 1 ELSE x.billions
    IN  (IF billions = 0 THEN NatToStr(whole)
         ELSE NatToStr(billions) \o RJust(NatToStr(whole), 9, "0"))
        \o <<".">> \o <<Digits[(cents \div 10) + 1], Digits[(cents % 10) + 1]>>

\* A variant that pads a negative value to the full width after the sign.
fmt_real_sign_extra(value, width) ==
    IF value.neg /\ (value.billions > 0 \/ value.whole > 0 \/ value.cents > 0
                      \/ value.thousandth > 0)
    THEN <<"-">> \o RJust(Format2f(value), width, "0")
    ELSE RJust(Format2f(value), width, "0")

fmt_real(value, width) ==
    LET negative  == value.neg /\ (value.billions > 0 \/ value.whole > 0 \/ value.cents > 0
                                    \/ value.thousandth > 0)
        formatted == Format2f(value)
    IN  IF negative THEN <<"-">> \o RJust(formatted, width - 1, "0")
        ELSE RJust(formatted, width, "0")

(***************************************************************************)
(* models.py: the five record types and their fixed-width encoders.        *)
(***************************************************************************)
HIDWidth == 337
BIDWidth == 261
SIDWidth == 551
PURWidth == 130
TOTWidth == 140

\* A HIDRecord with the dataclass's defaults for the fields not given.
HIDRecord(distributor_id, test_flag, end_date, name, address, city, state, zip, country, last_name, first_name, phone, fax, email, pur_measure_count, creation_date) ==
    [kind |-> "HID", distributor_id |-> distributor_id, project_id |-> <<"T", "O", "B">>,
     test_flag |-> test_flag, time_interval |-> <<"W">>, end_date |-> end_date,
     distributor_name |-> name, distributor_address |-> address,
     distributor_city |-> city, distributor_state |-> state,
     distributor_zip |-> zip, distributor_country |-> country,
     contact_last_name |-> last_name, contact_first_name |-> first_name,
     contact_phone |-> phone, contact_fax |-> fax, contact_email |-> email,
     pur_measure_count |-> pur_measure_count, creation_date |-> creation_date,
     inv_resubmission |-> <<>>]

HIDToLine(r) ==
    fmtL(<<"H", "I", "D">>, 3)
    \o fmtL(r.distributor_id, 8)
    \o fmt(r.project_id, 4, "L", " ")
    \o fmtL(r.test_flag, 1)
    \o fmtL(r.time_interval, 1)
    \o fmtL(r.end_date, 8)
    \o fmtL(r.distributor_name, 32)
    \o fmtL(r.distributor_address, 90)
    \o fmtL(r.distributor_city, 25)
    \o fmtL(r.distributor_state, 2)
    \o fmtL(r.distributor_zip, 9)
    \o fmtL(r.distributor_country, 3)
    \o fmtL(r.contact_last_name, 20)
    \o fmtL(r.contact_first_name, 20)
    \o fmtL(<<>>, 5)
    \o fmtL(r.contact_phone, 10)
    \o fmtL(<<>>, 5)
    \o fmtL(r.contact_fax, 10)
    \o fmtL(r.contact_email, 60)
    \o fmt(<<"0", "0", "0", "1">>, 4, "R", "0")
    \o fmt(<<"0", "0", "0", "0">>, 4, "R", "0")
    \o fmt(r.pur_measure_count, 4, "R", "0")
    \o fmtL(r.creation_date, 8)
    \o fmtL(r.inv_resubmission, 1)

\* A BIDRecord with the dataclass's defaults for the fields not given.
BIDRecord(upc, sku, product_description, items_per_selling_unit, unit_size_description, promotion_indicator, mfr_product_id, msa_category_code, inventory) ==
    [kind |-> "BID", upc |-> upc, sku |-> sku,
     product_description |-> product_description, promotion_description |-> <<>>,
     items_per_selling_unit |-> items_per_selling_unit,
     promotion_indicator |-> promotion_indicator, nacs_category_code |-> <<>>,
     msa_category_code |-> msa_category_code, unit_size |-> <<>>,
     unit_size_description |-> unit_size_description, shipper_flag |-> <<>>,
     mfr_promo_code |-> <<>>, mfr_product_id |-> mfr_product_id,
     state_tax_jurisdiction |-> <<>>, inventory |-> inventory]

BIDToLine(r) ==
    fmtL(<<"B", "I", "D">>, 3)
    \o fmt(r.upc, 14, "R", " ")
    \o fmt(r.sku, 14, "R", "0")
    \o fmtL(r.product_description, 50)
    \o fmtL(r.promotion_description, 50)
    \o fmt(r.items_per_selling_unit, 6, "R", "0")
    \o fmtL(r.promotion_indicator, 1)
    \o fmtL(r.nacs_category_code, 6)
    \o fmtL(r.msa_category_code, 6)
    \o fmtL(<<>>, 10)
    \o fmt(r.unit_size, 6, "R", "0")
    \o fmtL(r.unit_size_description, 10)
    \o fmtL(r.shipper_flag, 1)
    \o fmtL(r.mfr_promo_code, 10)
    \o fmtL(r.mfr_product_id, 14)
    \o fmtL(<<>>, 2)
    \o fmtL(<<>>, 4)
    \o fmtL(r.state_tax_jurisdiction, 2)
    \o fmt(<<>>, 16, "R", " ")
    \o fmt(<<>>, 16, "R", " ")
    \o fmt(<<>>, 2, "R", "0")
    \o fmtL(<<>>, 4)
    \o fmtL(<<"0", "0", "3">>, 3)
    \o fmt_real(r.inventory, 11)

\* A SIDRecord with the dataclass's defaults for the fields not given.
SIDRecord(customer_number, shipping_number, customer_name, address, city, state, zip_code, country, class_of_trade, cash_carry_indicator) ==
    [kind |-> "SID", customer_number |-> customer_number,
     shipping_number |-> shipping_number, shipping_number_ext |-> <<>>,
     customer_name |-> customer_name, store_number |-> <<>>, address |-> address,
     city |-> city, state |-> state, zip_code |-> zip_code, country |-> country,
     state_tax_jurisdiction |-> <<>>, phone |-> <<>>,
     class_of_trade |-> class_of_trade, tdlinx_number |-> <<>>,
     cash_carry_indicator |-> cash_carry_indicator, promo_acceptance |-> <<>>]

SIDToLine(r) ==
    fmtL(<<"S", "I", "D">>, 3)
    \o fmtL(r.customer_number, 8)
    \o fmtL(r.shipping_number, 8)
    \o fmtL(r.shipping_number_ext, 8)
    \o fmtL(r.customer_name, 32)
    \o fmtL(r.store_number, 8)
    \o fmtL(r.address, 90)
    \o fmtL(r.city, 25)
    \o fmtL(r.state, 2)
    \o fmtL(r.zip_code, 9)
    \o fmtL(r.country, 3)
    \o fmtL(r.state_tax_jurisdiction, 2)
    \o fmtL(<<>>, 3)
    \o fmtL(r.phone, 10)
    \o fmtL(r.class_of_trade, 20)
    \o fmtL(r.tdlinx_number, 7)
    \o fmtL(r.cash_carry_indicator, 1)
    \o fmtL(<<>>, 16)
    \o fmtL(<<>>, 2)
    \o fmtL(<<>>, 1)
    \o fmtL(<<>>, 24)
    \o fmtL(<<>>, 24)
    \o fmtL(<<>>, 32)
    \o fmtL(<<>>, 90)
    \o fmtL(<<>>, 25)
    \o fmtL(<<>>, 2)
    \o fmtL(<<>>, 9)
    \o fmtL(<<>>, 3)
    \o fmtL(<<>>, 5)
    \o fmt(<<>>, 10, "R", "0")
    \o fmt(<<>>, 5, "R", "0")
    \o fmt(<<>>, 5, "R", "0")
    \o fmt(<<>>, 5, "R", "0")
    \o fmtL(r.promo_acceptance, 1)
    \o fmtL(<<>>, 10)
    \o fmtL(<<>>, 29)
    \o fmtL(<<>>, 3)
    \o fmt(<<>>, 11, "R", "0")

\* A PURRecord with the dataclass's defaults for the fields not given.
PURRecord(customer_number, shipping_number, sku, invoice_number, transaction_date, quantity, dollars) ==
    [kind |-> "PUR", customer_number |-> customer_number,
     shipping_number |-> shipping_number, shipping_number_ext |-> <<>>,
     sku |-> sku, invoice_number |-> invoice_number,
     transaction_date |-> transaction_date, quantity |-> quantity,
     dollars |-> dollars]

PURToLine(r) ==
    LET has_dollars == r.dollars # NoFloat
    IN  fmtL(<<"P", "U", "R">>, 3)
        \o fmtL(r.customer_number, 8)
        \o fmtL(r.shipping_number, 8)
        \o fmtL(r.shipping_number_ext, 8)
        \o fmt(r.sku, 14, "R", "0")
        \o fmtL(<<>>, 3)
        \o fmtL(r.invoice_number, 30)
        \o fmtL(r.transaction_date, 8)
        \o fmtL(<<>>, 20)
        \o fmtL(<<"0", "0", "1">>, 3)
        \o fmt_real(r.quantity, 11)
        \o (IF has_dollars THEN fmtL(<<"0", "0", "2">>, 3) ELSE fmtL(<<>>, 3))
        \o (IF has_dollars THEN fmt_real(r.dollars[1], 11) ELSE fmtL(<<>>, 11))

TOTRecord(distributor_id, end_date, bid_count, sid_count, pur_count, total_quantity, total_dollars, total_inventory) ==
    [kind |-> "TOT", distributor_id |-> distributor_id, end_date |-> end_date,
     bid_count |-> bid_count, sid_count |-> sid_count, pur_count |-> pur_count,
     total_quantity |-> total_quantity, total_dollars |-> total_dollars,
     total_inventory |-> total_inventory]

TOTToLine(r) ==
    LET has_dollars == r.total_dollars # NoFloat
    IN  fmtL(<<"T", "O", "T">>, 3)
        \o fmtL(r.distributor_id, 8)
        \o fmtL(r.end_date, 8)
        \o fmt(IntToStr(r.bid_count), 9, "R", "0")
        \o fmt(IntToStr(r.sid_count), 9, "R", "0")
        \o fmt(IntToStr(r.pur_count), 9, "R", "0")
        \o fmtL(<<>>, 40)
        \o fmtL(<<"0", "0", "1">>, 3)
        \o fmt_real(r.total_quantity, 15)
        \o (IF has_dollars THEN fmtL(<<"0", "0", "2">>, 3) ELSE fmtL(<<>>, 3))
        \o (IF has_dollars THEN fmt_real(r.total_dollars[1], 15) ELSE fmtL(<<>>, 15))
        \o fmtL(<<"0", "0", "3">>, 3)
        \o fmt_real(r.total_inventory, 15)

\* record.to_line(), by record type.
to_line(r) ==
    CASE r.kind = "HID" -> HIDToLine(r)
      [] r.kind = "BID" -> BIDToLine(r)
      [] r.kind = "SID" -> SIDToLine(r)
      [] r.kind = "PUR" -> PURToLine(r)
      [] r.kind = "TOT" -> TOTToLine(r)

\* The line width the format mandates for a record type.
Width(kind) ==
    CASE kind = "HID" -> HIDWidth
      [] kind = "BID" -> BIDWidth
      [] kind = "SID" -> SIDWidth
      [] kind = "PUR" -> PURWidth
      [] kind = "TOT" -> TOTWidth

(***************************************************************************)
(* The encoders on their own: a record of any type and content is          *)
(* constructed, then encoded by to_line().                                 *)
(***************************************************************************)
\* Field contents: empty, short, as long as the widest field, and longer.
StrChoices == {<<>>, <<"A", "b">>, Rep("9", 90), Rep("Z", 91)}

\* Measure values: 0, 1.50, 570, -4.0, and values around the 11-column limit.
RealChoices ==
    {Float(0), Real(FALSE, 1, 50), Float(570), Float(-4),
     Real(FALSE, 99999999, 99), Float(100000000), Real(TRUE, 9999999, 99),
     Float(-10000000)}

OptRealChoices == {NoFloat} \cup {Some(x) : x \in RealChoices}

CountChoices == {0, 3, 1234567890}

RecInputs ==
    {HIDRecord(s, t, s, t, s, t, s, t, s, t, s, t, s, t, s, t) :
        s \in StrChoices, t \in StrChoices}
    \cup {BIDRecord(s, t, s, t, s, t, s, t, x) :
        s \in StrChoices, t \in StrChoices, x \in RealChoices}
    \cup {SIDRecord(s, t, s, t, s, t, s, t, s, t) :
        s \in StrChoices, t \in StrChoices}
    \cup {PURRecord(s, t, s, t, s, x, d) :
        s \in StrChoices, t \in StrChoices, x \in RealChoices, d \in OptRealChoices}
    \cup {TOTRecord(s, s, n, n, n, x, d, y) :
        s \in StrChoices, n \in CountChoices, x \in RealChoices,
        d \in OptRealChoices, y \in {Float(0), Float(7983), Float(-4)}}

InitEnc ==
    /\ rec \in RecInputs
    /\ line = <<>>
    /\ pc = "encode"
    /\ df = <<>> /\ config = <<>> /\ now = <<>>
    /\ hid = <<>> /\ bids = <<>> /\ sids = <<>> /\ purs = <<>> /\ tot = <<>>
    /\ output_result = <<>>
    /\ NothingRun

\* line = rec.to_line()
ToLine ==
    /\ pc = "encode"
    /\ line' = to_line(rec)
    /\ pc' = "encoded"
    /\ UNCHANGED <<df, config, now, hid, bids, sids, purs, tot, output_result, rec>>
    /\ UNCHANGED run_vars

NextEnc == ToLine

SpecEnc == InitEnc /\ [][NextEnc]_vars

\* C1: every record of every type and content encodes to a line of exactly its
\* type's width: 337, 261, 551, 130, 140 for HID, BID, SID, PUR, TOT.
C1_LineWidthAlwaysFixed ==
    pc = "encoded" => Len(line) = Width(rec.kind)

(***************************************************************************)
(* Calendar dates (datetime): year, month, day.                            *)
(***************************************************************************)
Date(y, m, d) == [y |-> y, m |-> m, d |-> d]

IsLeap(y) == (y % 4 = 0 /\ y % 100 # 0) \/ y % 400 = 0

DaysInMonth(y, m) ==
    IF m = 2 THEN (IF IsLeap(y) THEN 29 ELSE 28)
    ELSE IF m \in {4, 6, 9, 11} THEN 30 ELSE 31

\* The number of days of the year y before the first of month m.
RECURSIVE DaysBeforeMonth(_, _)
DaysBeforeMonth(y, m) ==
    IF m = 1 THEN 0 ELSE DaysBeforeMonth(y, m - 1) + DaysInMonth(y, m - 1)

\* date.toordinal(): 1 for 0001-01-01.
ToOrdinal(dt) ==
    LET p == dt.y - 1
    IN  p * 365 + (p \div 4) - (p \div 100) + (p \div 400)
        + DaysBeforeMonth(dt.y, dt.m) + dt.d

\* date.weekday(): Monday is 0, Saturday 5, Sunday 6.
Weekday(dt) == (ToOrdinal(dt) + 6) % 7

NextDay(dt) ==
    IF dt.d < DaysInMonth(dt.y, dt.m) THEN Date(dt.y, dt.m, dt.d + 1)
    ELSE IF dt.m < 12 THEN Date(dt.y, dt.m + 1, 1)
    ELSE Date(dt.y + 1, 1, 1)

\* dt + timedelta(days=n), n >= 0.
RECURSIVE AddDays(_, _)
AddDays(dt, n) == IF n = 0 THEN dt ELSE AddDays(NextDay(dt), n - 1)

\* dt.strftime("%Y%m%d")
StrfYmd(dt) ==
    RJust(NatToStr(dt.y), 4, "0") \o RJust(NatToStr(dt.m), 2, "0")
    \o RJust(NatToStr(dt.d), 2, "0")

(***************************************************************************)
(* Parsing dates (datetime.strptime). A parse yields <<date>>, or <<>>     *)
(* where strptime raises ValueError.                                       *)
(***************************************************************************)
AllDigits(s) == \A i \in 1..Len(s) : IsDigit(s[i])

\* str.strip() of blanks.
RECURSIVE Strip(_)
Strip(s) ==
    IF s = <<>> THEN s
    ELSE IF Head(s) = " " THEN Strip(Tail(s))
    ELSE IF s[Len(s)] = " " THEN Strip(SubSeq(s, 1, Len(s) - 1))
    ELSE s

\* s.split(sep)
RECURSIVE Split(_, _)
Split(s, sep) ==
    IF \A i \in 1..Len(s) : s[i] # sep THEN <<s>>
    ELSE LET k == CHOOSE i \in 1..Len(s) :
                    s[i] = sep /\ \A j \in 1..(i - 1) : s[j] # sep
         IN  <<SubSeq(s, 1, k - 1)>> \o Split(SubSeq(s, k + 1, Len(s)), sep)

\* The fields %Y (four digits), %m and %d (one or two digits, in range), and
\* the date they name, if it exists.
MakeDate(ys, ms, ds) ==
    IF /\ Len(ys) = 4 /\ AllDigits(ys)
       /\ Len(ms) \in {1, 2} /\ AllDigits(ms)
       /\ Len(ds) \in {1, 2} /\ AllDigits(ds)
    THEN LET y == StrToNat(ys)
             m == StrToNat(ms)
             d == StrToNat(ds)
         IN  IF y >= 1 /\ m \in 1..12 /\ d >= 1 /\ d <= DaysInMonth(y, m)
             THEN <<Date(y, m, d)>> ELSE <<>>
    ELSE <<>>

\* datetime.strptime(s, date_fmt) for the four formats fmt_date tries.
Strptime(s, date_fmt) ==
    CASE date_fmt = "%m/%d/%Y" ->
            LET p == Split(s, "/")
            IN  IF Len(p) = 3 THEN MakeDate(p[3], p[1], p[2]) ELSE <<>>
      [] date_fmt = "%Y-%m-%d" ->
            LET p == Split(s, "-")
            IN  IF Len(p) = 3 THEN MakeDate(p[1], p[2], p[3]) ELSE <<>>
      [] date_fmt = "%m-%d-%Y" ->
            LET p == Split(s, "-")
            IN  IF Len(p) = 3 THEN MakeDate(p[3], p[1], p[2]) ELSE <<>>
      [] date_fmt = "%Y%m%d" ->
            IF Len(s) = 8 /\ AllDigits(s)
            THEN MakeDate(SubSeq(s, 1, 4), SubSeq(s, 5, 6), SubSeq(s, 7, 8))
            ELSE <<>>

DateFormats == <<"%m/%d/%Y", "%Y-%m-%d", "%m-%d-%Y", "%Y%m%d">>

\* The date the first matching format gives, <<>> if none matches.
RECURSIVE ParseFirst(_, _)
ParseFirst(s, i) ==
    IF i > Len(DateFormats) THEN <<>>
    ELSE IF Strptime(s, DateFormats[i]) # <<>> THEN Strptime(s, DateFormats[i])
    ELSE ParseFirst(s, i + 1)

\* What fmt_date yields where it raises ValueError.
ValueError == <<"ValueError">>

fmt_date(date_str) ==
    LET parsed == ParseFirst(Strip(date_str), 1)
    IN  IF parsed = <<>> THEN ValueError ELSE StrfYmd(parsed[1])

(***************************************************************************)
(* mappings.py                                                             *)
(***************************************************************************)
\* MSA_CATEGORY_CODES, as a sequence of <<category, code>>.
MSA_CATEGORY_CODES ==
    <<
      <<<<"C", "i", "g", "a", "r", "e", "t", "t", "e", "s">>, <<"0", "0", "3", "2", "3", "1">>>>,
      <<<<"C", "i", "g", "a", "r", "s">>, <<"0", "0", "3", "2", "5", "1">>>>,
      <<<<"C", "i", "g", "a", "r", "i", "l", "l", "o", "s">>, <<"0", "0", "3", "2", "5", "2">>>>,
      <<<<"P", "i", "p", "e", " ", "T", "o", "b", "a", "c", "c", "o">>, <<"0", "0", "3", "2", "4", "1">>>>,
      <<<<"M", "o", "i", "s", "t", " ", "S", "n", "u", "f", "f">>, <<"0", "0", "3", "2", "1", "1">>>>,
      <<<<"L", "o", "o", "s", "e", " ", "L", "e", "a", "f", " ", "C", "h", "e", "w", "i", "n", "g", " ", "T", "o", "b", "a", "c", "c", "o">>, <<"0", "0", "3", "2", "1", "2">>>>,
      <<<<"D", "r", "y", " ", "S", "n", "u", "f", "f">>, <<"0", "0", "3", "2", "1", "3">>>>,
      <<<<"T", "w", "i", "s", "t", "/", "R", "o", "p", "e">>, <<"0", "0", "3", "2", "1", "4">>>>,
      <<<<"S", "N", "U", "S">>, <<"0", "0", "3", "2", "1", "7">>>>,
      <<<<"C", "o", "m", "p", "r", "e", "s", "s", "e", "d", " ", "T", "o", "b", "a", "c", "c", "o">>, <<"0", "0", "3", "2", "1", "8">>>>,
      <<<<"R", "Y", "O", "/", "M", "Y", "O", " ", "T", "o", "b", "a", "c", "c", "o">>, <<"0", "0", "3", "2", "2", "1">>>>,
      <<<<"P", "r", "e", "m", "i", "u", "m", " ", "C", "i", "g", "a", "r", "s">>, <<"0", "0", "3", "2", "2", "7">>>>,
      <<<<"P", "a", "p", "e", "r", "s", "/", "T", "u", "b", "e", "s", "/", "W", "r", "a", "p", "s">>, <<"0", "0", "3", "2", "6", "1">>>>,
      <<<<"E", "-", "C", "i", "g", "a", "r", "e", "t", "t", "e", "s">>, <<"0", "0", "3", "2", "9", "2">>>>,
      <<<<"T", "o", "b", "a", "c", "c", "o", " ", "D", "e", "r", "i", "v", "e", "d", " ", "P", "r", "o", "d", "u", "c", "t", "s">>, <<"0", "0", "3", "2", "9", "3">>>>
    >>

\* YES_NO_MAP, as a sequence of <<text, indicator>>.
YES_NO_MAP ==
    <<
      <<<<"Y", "e", "s">>, <<"Y">>>>,
      <<<<"N", "o">>, <<"N">>>>,
      <<<<"y", "e", "s">>, <<"Y">>>>,
      <<<<"n", "o">>, <<"N">>>>,
      <<<<"Y">>, <<"Y">>>>,
      <<<<"N">>, <<"N">>>>,
      <<<<>>, <<"N">>>>
    >>

\* mapping.get(key, default)
DictGet(mapping, key, default) ==
    IF \E i \in 1..Len(mapping) : mapping[i][1] = key
    THEN mapping[CHOOSE i \in 1..Len(mapping) : mapping[i][1] = key][2]
    ELSE default

\* mapping[key] = value: a new key is appended, an old one keeps its place.
DictSet(mapping, key, value) ==
    IF \E i \in 1..Len(mapping) : mapping[i][1] = key
    THEN [i \in 1..Len(mapping) |->
            IF mapping[i][1] = key THEN <<key, value>> ELSE mapping[i]]
    ELSE Append(mapping, <<key, value>>)

\* What Series.map(mapping) yields for a value that is no key of the mapping.
NaN == <<"NaN">>

(***************************************************************************)
(* Data frames: a sequence of rows, each a record of the normalized        *)
(* columns. Qty, OnHandInventory, unit and Zip are integer columns, the    *)
(* others text; UPCCode is the decimal numeral of the integer, or NaN.     *)
(***************************************************************************)
\* The column col of the frame, as a sequence.
Column(frame, col) == [i \in 1..Len(frame) |-> frame[i][col]]

\* A variant that keeps every occurrence: what the lookup would be built from
\* without the de-duplication.
KeepDuplicates(s) == s

\* Series.drop_duplicates(): the first occurrence of each value, in order.
RECURSIVE DropDuplicates(_)
DropDuplicates(s) ==
    IF s = <<>> THEN <<>>
    ELSE LET init == DropDuplicates(SubSeq(s, 1, Len(s) - 1))
             x    == s[Len(s)]
         IN  IF \E i \in 1..Len(init) : init[i] = x THEN init ELSE Append(init, x)

\* sum of a sequence of integers.
RECURSIVE SumSeq(_)
SumSeq(s) == IF s = <<>> THEN 0 ELSE Head(s) + SumSeq(Tail(s))

\* max of a non-empty sequence of integers.
RECURSIVE MaxInt(_)
MaxInt(s) ==
    IF Len(s) = 1 THEN s[1]
    ELSE LET m == MaxInt(Tail(s)) IN IF Head(s) >= m THEN Head(s) ELSE m

\* max of a non-empty sequence of strings, by Python's string order.
RECURSIVE MaxStr(_)
MaxStr(s) ==
    IF Len(s) = 1 THEN s[1]
    ELSE LET m == MaxStr(Tail(s)) IN IF StrLess(Head(s), m) THEN m ELSE Head(s)

\* The strings of s sorted ascending, without duplicates (group-by key order).
RECURSIVE SortedKeys(_)
SortedKeys(s) ==
    IF s = <<>> THEN <<>>
    ELSE LET m    == MaxStr(s)
             rest == SelectSeq(s, LAMBDA x : x # m)
         IN  Append(SortedKeys(rest), m)

\* pd.to_datetime(text): the date a date text names.
to_datetime(text) == ParseFirst(Strip(text), 1)[1]

\* The latest of a non-empty sequence of dates.
RECURSIVE MaxDate(_)
MaxDate(s) ==
    IF Len(s) = 1 THEN s[1]
    ELSE LET m == MaxDate(Tail(s))
         IN  IF ToOrdinal(Head(s)) >= ToOrdinal(m) THEN Head(s) ELSE m

(***************************************************************************)
(* builder.py                                                              *)
(***************************************************************************)
\* A variant that rolls forward to Sunday.
days_until_sunday(max_date) == (6 - Weekday(max_date)) % 7

\* The week-end weekday the code rolls forward to (Saturday).
days_until_saturday(max_date) ==
    LET d == (5 - Weekday(max_date)) % 7
    IN  IF d = 0 /\ Weekday(max_date) # 5 THEN 7 ELSE d

_week_end_date(dates) ==
    LET max_date == MaxDate([i \in 1..Len(dates) |-> to_datetime(dates[i])])
        saturday == AddDays(max_date, days_until_saturday(max_date))
    IN  StrfYmd(saturday)

\* df[["CustomerNumber", "CustomerName", "Address", "City", "State", "Zip"]]
LocationColumns(frame) ==
    [i \in 1..Len(frame) |->
        <<frame[i].CustomerNumber, frame[i].CustomerName, frame[i].Address,
          frame[i].City, frame[i].State, frame[i].Zip>>]

\* The sort key ["CustomerNumber", "Address"] of a location row: a before b.
SortKeyLess(a, b) ==
    \/ StrLess(a[1], b[1])
    \/ a[1] = b[1] /\ StrLess(a[3], b[3])

\* sort_values(["CustomerNumber", "Address"]): stable, rows of equal key keep
\* their order.
RECURSIVE SortValues(_)
SortValues(s) ==
    IF s = <<>> THEN <<>>
    ELSE LET init == SortValues(SubSeq(s, 1, Len(s) - 1))
             x    == s[Len(s)]
             k    == Cardinality({i \in 1..Len(init) : ~SortKeyLess(x, init[i])})
         IN  SubSeq(init, 1, k) \o <<x>> \o SubSeq(init, k + 1, Len(init))

\* The loop of _build_sid_lookup over the sorted location rows.
RECURSIVE SidLookupLoop(_, _, _)
SidLookupLoop(locations, lookup, customer_seq) ==
    IF locations = <<>> THEN lookup
    ELSE LET row  == Head(locations)
             cust == row[1]
             key  == <<cust, row[2], row[3], row[4], row[5], NatToStr(row[6])>>
             seq  == DictGet(customer_seq, cust, 0) + 1
         IN  SidLookupLoop(Tail(locations),
                           DictSet(lookup, key, RJust(NatToStr(seq), 8, "0")),
                           DictSet(customer_seq, cust, seq))

\* The dict location key -> shipping number, as a sequence of <<key, number>>
\* in insertion order.
_build_sid_lookup(frame) ==
    SidLookupLoop(SortValues(DropDuplicates(LocationColumns(frame))), <<>>, <<>>)

\* The rows of a group-by group: those with the item code, in frame order.
ItemGroup(frame, sku) == SelectSeq(frame, LAMBDA r : r.ItemCode = sku)

\* A variant that looks at the first row of the group alone.
has_promo_first_row(group) ==
    IF DictGet(YES_NO_MAP, group[1].Promo, NaN) = <<"Y">> THEN <<"Y">> ELSE <<"N">>

\* "Y" if "Y" in group["Promo"].map(YES_NO_MAP).values else "N"
has_promo(group) ==
    LET promo_values == [i \in 1..Len(group) |-> DictGet(YES_NO_MAP, group[i].Promo, NaN)]
    IN  IF \E i \in 1..Len(group) : promo_values[i] = <<"Y">> THEN <<"Y">> ELSE <<"N">>

\* A variant that sums the group's inventories.
group_inventory_sum(group) == SumSeq(Column(group, "OnHandInventory"))

\* group["OnHandInventory"].max()
group_inventory(group) == MaxInt(Column(group, "OnHandInventory"))

\* str(int(row["UPCCode"])) if pd.notna(row["UPCCode"]) else ""
UpcText(row) == IF row.UPCCode = NaN THEN <<>> ELSE row.UPCCode

\* The BID record of one row taken as a group of its own.
BuildBidOfRow(row) ==
    BIDRecord(row.UPCCode, row.ItemCode, row.ItemDescription, NatToStr(row.unit),
              row.SellingUnit, <<"N">>, row.UPCCode, <<>>, Float(row.OnHandInventory))

\* A variant without the group-by: one BID record per row.
BuildBidsPerRow(frame) == [i \in 1..Len(frame) |-> BuildBidOfRow(frame[i])]

\* The BID record of one item-code group.
BuildBid(sku, group) ==
    LET row == group[1]
    IN  BIDRecord(UpcText(row), sku, row.ItemDescription, NatToStr(row.unit),
                  row.SellingUnit, has_promo(group), UpcText(row),
                  DictGet(MSA_CATEGORY_CODES, row.Categories, <<>>),
                  Float(group_inventory(group)))

\* BID records: one per group of df.groupby("ItemCode"), in key order.
BuildBids(frame) ==
    LET skus == SortedKeys(Column(frame, "ItemCode"))
    IN  [i \in 1..Len(skus) |-> BuildBid(skus[i], ItemGroup(frame, skus[i]))]

\* df[mask]: the rows the mask of a location key selects.
LocationRows(frame, location_key) ==
    SelectSeq(frame, LAMBDA r :
        /\ r.CustomerNumber = location_key[1]
        /\ r.Address = location_key[3]
        /\ r.City = location_key[4])

\* The SID record of one entry of the lookup.
BuildSid(frame, location_key, shipping_number) ==
    LET row == LocationRows(frame, location_key)[1]
    IN  SIDRecord(location_key[1], shipping_number, location_key[2],
                  location_key[3], location_key[4], location_key[5],
                  location_key[6], <<"U", "S", "A">>, row.ClassOfTrade,
                  DictGet(YES_NO_MAP, row.CashCarry, <<"N">>))

BuildSids(frame, sid_lookup) ==
    [i \in 1..Len(sid_lookup) |-> BuildSid(frame, sid_lookup[i][1], sid_lookup[i][2])]

\* A variant that writes the shipping number without its zero padding.
BuildPurUnpadded(location_key, shipping_number, sku, group) ==
    PURRecord(location_key[1], NatToStr(StrToNat(shipping_number)), sku, group[1].Invoice,
              fmt_date(MaxStr(Column(group, "Date"))),
              Float(SumSeq(Column(group, "Qty"))), NoFloat)

\* The PUR record of one item-code group of a location's rows.
BuildPur(location_key, shipping_number, sku, group) ==
    PURRecord(location_key[1], shipping_number, sku, group[1].Invoice,
              fmt_date(MaxStr(Column(group, "Date"))),
              Float(SumSeq(Column(group, "Qty"))), NoFloat)

\* The PUR records of one entry of the lookup, in item-code order.
BuildLocationPurs(frame, location_key, shipping_number) ==
    LET location_rows == LocationRows(frame, location_key)
        skus == SortedKeys(Column(location_rows, "ItemCode"))
    IN  [i \in 1..Len(skus) |->
            BuildPur(location_key, shipping_number, skus[i],
                     ItemGroup(location_rows, skus[i]))]

RECURSIVE BuildPursFrom(_, _, _)
BuildPursFrom(frame, sid_lookup, i) ==
    IF i > Len(sid_lookup) THEN <<>>
    ELSE BuildLocationPurs(frame, sid_lookup[i][1], sid_lookup[i][2])
         \o BuildPursFrom(frame, sid_lookup, i + 1)

BuildPurs(frame, sid_lookup) == BuildPursFrom(frame, sid_lookup, 1)

BuildHid(cfg, end_date, creation_date) ==
    HIDRecord(cfg.distributor_id, IF cfg.test_mode THEN <<"T">> ELSE <<" ">>,
              end_date, cfg.name, cfg.address, cfg.city, cfg.state, cfg.zip_code,
              cfg.country, cfg.contact_last_name, cfg.contact_first_name,
              cfg.contact_phone, cfg.contact_fax, cfg.contact_email,
              <<"0", "0", "0", "1">>, creation_date)

\* The whole units of the records' field, added up.
RECURSIVE SumWhole(_, _)
SumWhole(records, field) ==
    IF records = <<>> THEN 0
    ELSE SignedWhole(Head(records)[field]) + SumWhole(Tail(records), field)

\* The hundredths of the records' field, added up.
RECURSIVE SumHundredths(_, _)
SumHundredths(records, field) ==
    IF records = <<>> THEN 0
    ELSE SignedCents(Head(records)[field]) + SumHundredths(Tail(records), field)

\* sum(x.field for x in records) of a float field.
SumField(records, field) ==
    Normalise(SumWhole(records, field), SumHundredths(records, field))

\* A variant whose purchase count is taken from the ship-to list.
BuildTotPurCountFromSids(cfg, end_date, bid_records, sid_records, pur_records) ==
    TOTRecord(cfg.distributor_id, end_date, Len(bid_records), Len(sid_records),
              Len(sid_records), SumField(pur_records, "quantity"),
              NoFloat, SumField(bid_records, "inventory"))

BuildTot(cfg, end_date, bid_records, sid_records, pur_records) ==
    TOTRecord(cfg.distributor_id, end_date, Len(bid_records), Len(sid_records),
              Len(pur_records), SumField(pur_records, "quantity"),
              NoFloat, SumField(bid_records, "inventory"))

(***************************************************************************)
(* validator.py                                                            *)
(***************************************************************************)
ValidationResult(errors, warnings) == [errors |-> errors, warnings |-> warnings]

is_valid(result) == Len(result.errors) = 0

Error(check, index) == [check |-> check, index |-> index]

\* abs(x) > 0.01
ExceedsCent(x) == x.whole > 0 \/ x.cents > 1

\* The errors of the width check of one record list, in list order.
WidthErrors(records, width, check) ==
    LET bad == SelectSeq([i \in 1..Len(records) |-> i],
                         LAMBDA i : Len(to_line(records[i])) # width)
    IN  [k \in 1..Len(bad) |-> Error(check, bad[k] - 1)]

\* A variant that stops at the first failed check.
validate_output_first_error(bid_records, sid_records, pur_records, total) ==
    IF total.bid_count # Len(bid_records)
    THEN ValidationResult(<<Error("bid_count", 0)>>, <<>>)
    ELSE IF total.sid_count # Len(sid_records)
    THEN ValidationResult(<<Error("sid_count", 0)>>, <<>>)
    ELSE IF total.pur_count # Len(pur_records)
    THEN ValidationResult(<<Error("pur_count", 0)>>, <<>>)
    ELSE IF ExceedsCent(Minus(total.total_quantity, SumField(pur_records, "quantity")))
    THEN ValidationResult(<<Error("total_quantity", 0)>>, <<>>)
    ELSE IF ExceedsCent(Minus(total.total_inventory, SumField(bid_records, "inventory")))
    THEN ValidationResult(<<Error("total_inventory", 0)>>, <<>>)
    ELSE LET width_errors == WidthErrors(bid_records, BIDWidth, "BID width")
                             \o WidthErrors(sid_records, SIDWidth, "SID width")
                             \o WidthErrors(pur_records, PURWidth, "PUR width")
         IN  ValidationResult(IF width_errors = <<>> THEN <<>> ELSE <<Head(width_errors)>>,
                              <<>>)

validate_output(bid_records, sid_records, pur_records, total) ==
    LET actual_qty == SumField(pur_records, "quantity")
        actual_inv == SumField(bid_records, "inventory")
        errors ==
            (IF total.bid_count # Len(bid_records) THEN <<Error("bid_count", 0)>> ELSE <<>>)
            \o (IF total.sid_count # Len(sid_records) THEN <<Error("sid_count", 0)>> ELSE <<>>)
            \o (IF total.pur_count # Len(pur_records) THEN <<Error("pur_count", 0)>> ELSE <<>>)
            \o (IF ExceedsCent(Minus(total.total_quantity, actual_qty))
                THEN <<Error("total_quantity", 0)>> ELSE <<>>)
            \o (IF ExceedsCent(Minus(total.total_inventory, actual_inv))
                THEN <<Error("total_inventory", 0)>> ELSE <<>>)
            \o WidthErrors(bid_records, BIDWidth, "BID width")
            \o WidthErrors(sid_records, SIDWidth, "SID width")
            \o WidthErrors(pur_records, PURWidth, "PUR width")
    IN  ValidationResult(errors, <<>>)

(***************************************************************************)
(* config.py                                                               *)
(***************************************************************************)
\* DistributorConfig with its defaults, test_mode and name as given.
DistributorConfig(name, test_mode) ==
    [distributor_id |-> <<"1", "0", "0", "9", "4", "0", "0", "1">>, name |-> name, address |-> <<>>,
     city |-> <<>>, state |-> <<>>, zip_code |-> <<>>, country |-> <<"U", "S", "A">>,
     contact_last_name |-> <<>>, contact_first_name |-> <<>>,
     contact_phone |-> <<>>, contact_fax |-> <<>>, contact_email |-> <<>>,
     test_mode |-> test_mode]

(***************************************************************************)
(* build_records: the records of a frame under a configuration, on the     *)
(* day `today` that datetime.now() shows.                                  *)
(***************************************************************************)
build_records(frame, cfg, today) ==
    LET end_date      == _week_end_date(Column(frame, "Date"))
        creation_date == StrfYmd(today)
        sid_lookup    == _build_sid_lookup(frame)
        bid_records   == BuildBids(frame)
        sid_records   == BuildSids(frame, sid_lookup)
        pur_records   == BuildPurs(frame, sid_lookup)
    IN  [hid  |-> BuildHid(cfg, end_date, creation_date),
         bids |-> bid_records,
         sids |-> sid_records,
         purs |-> pur_records,
         tot  |-> BuildTot(cfg, end_date, bid_records, sid_records, pur_records)]

(***************************************************************************)
(* Inputs of a conversion run.                                             *)
(***************************************************************************)
ItemCodes == {<<"F", "F", "1", "0", "0", "B">>, <<"S", "M", "O", "1", "0", "0", "B", "X">>}

CityOf(address) == IF address = <<"1", "0", "0", " ", "M", "a", "i", "n", " ", "S", "t">> THEN <<"C", "e", "r", "e", "s">> ELSE <<"F", "r", "e", "s", "n", "o">>

ZipOf(address) == IF address = <<"1", "0", "0", " ", "M", "a", "i", "n", " ", "S", "t">> THEN 95307 ELSE 93727

\* A row of the frame. City and Zip follow the address, the item's columns
\* the item code, class of trade and cash/carry the customer name. Qty holds
\* the number of a Qty cell; QtyCell says what the cell is: "number", "nan"
\* (no value) or "text" (text that is no number).
Row(cust, name, address, item, qty, date, promo, inventory) ==
    [CustomerNumber |-> cust, CustomerName |-> name, Date |-> date,
     Address |-> address, City |-> CityOf(address), State |-> <<"C", "A">>,
     Zip |-> ZipOf(address),
     Invoice |-> IF cust = <<"C", "0", "4", "0", "0", "2">> THEN <<"I", "N", "V", "/", "2", "0", "2", "6", "/", "0", "0", "1", "7", "9">> ELSE <<"I", "N", "V", "/", "2", "0", "2", "6", "/", "0", "0", "1", "6", "9">>,
     ItemCode |-> item,
     ItemDescription |-> IF item = <<"F", "F", "1", "0", "0", "B">> THEN <<"C", "l", "i", "p", "p", "e", "r", " ", "L", "a", "r", "g", "e", " ", "C", "i", "g", "a", "r">>
                         ELSE <<"C", "l", "i", "p", "p", "e", "r", " ", "L", "a", "r", "g", "e", " ", "C", "i", "g", "a", "r", " ", "S", "m", "o", "o", "t", "h">>,
     UPCCode |-> IF item = <<"F", "F", "1", "0", "0", "B">> THEN <<"8", "1", "2", "6", "1", "5", "0", "0", "6", "7", "0", "0">> ELSE <<"8", "1", "2", "6", "1", "5", "0", "0", "6", "7", "0", "1">>,
     Qty |-> qty, QtyCell |-> "number", OnHandInventory |-> inventory, Categories |-> <<"C", "i", "g", "a", "r", "s">>,
     Promo |-> promo,
     ClassOfTrade |-> IF name = <<"S", "T", "O", "R", "E", " ", "A">> THEN <<"W", "H", "O", "L", "E", "S", "A", "L", "E">> ELSE <<"R", "E", "T", "A", "I", "L">>,
     CashCarry |-> IF name = <<"S", "T", "O", "R", "E", " ", "A">> THEN <<"N", "o">> ELSE <<"Y", "e", "s">>,
     unit |-> 200, SellingUnit |-> <<"C", "A", "R", "T", "O", "N">>]

\* The frames of 1 to MaxRows rows over a set of rows.
Frames(rows) == UNION {[1..n -> rows] : n \in 1..MaxRows}

\* The locations of the rows: two that differ in the customer name alone, a
\* second address of the same customer, and another customer.
LocationInputs ==
    {<<<<"C", "0", "4", "0", "0", "2">>, <<"S", "T", "O", "R", "E", " ", "A">>, <<"1", "0", "0", " ", "M", "a", "i", "n", " ", "S", "t">>>>, <<<<"C", "0", "4", "0", "0", "2">>, <<"S", "T", "O", "R", "E", " ", "B">>, <<"1", "0", "0", " ", "M", "a", "i", "n", " ", "S", "t">>>>, <<<<"C", "0", "4", "0", "0", "2">>, <<"S", "T", "O", "R", "E", " ", "A">>, <<"2", "0", "0", " ", "O", "a", "k", " ", "A", "v", "e">>>>, <<<<"C", "0", "3", "2", "1", "8">>, <<"S", "T", "O", "R", "E", " ", "A">>, <<"1", "0", "0", " ", "M", "a", "i", "n", " ", "S", "t">>>>}

\* Item code and quantity of the rows: two quantities of one item, and
\* another item.
ItemQtyInputs == {<<<<"F", "F", "1", "0", "0", "B">>, 100>>, <<<<"F", "F", "1", "0", "0", "B">>, 570>>, <<<<"S", "M", "O", "1", "0", "0", "B", "X">>, 100>>}

\* Rows that differ in location, item and quantity.
LocationRowInputs ==
    {Row(l[1], l[2], l[3], iq[1], iq[2], <<"1", "/", "1", "6", "/", "2", "0", "2", "6">>, <<"N", "o">>, 5983) :
        l \in LocationInputs, iq \in ItemQtyInputs}

\* Promo texts: two that YES_NO_MAP maps, one that it does not.
PromoInputs == {<<"Y", "e", "s">>, <<"N", "o">>, <<"Y", "E", "S">>}

\* Rows of one location that differ in item, promo flag and inventory.
ItemRowInputs ==
    {Row(<<"C", "0", "4", "0", "0", "2">>, <<"S", "T", "O", "R", "E", " ", "A">>, <<"1", "0", "0", " ", "M", "a", "i", "n", " ", "S", "t">>, i, 100, <<"1", "/", "1", "6", "/", "2", "0", "2", "6">>, p, v) :
        i \in ItemCodes, p \in PromoInputs, v \in {2000, 5983}}

\* Date texts: every weekday, the ends of a month, of a year and of a leap
\* February, and two dates whose text order is not their calendar order.
DateInputs ==
    {<<"1", "/", "9", "/", "2", "0", "2", "6">>, <<"1", "/", "1", "2", "/", "2", "0", "2", "6">>, <<"1", "/", "1", "3", "/", "2", "0", "2", "6">>, <<"1", "/", "1", "4", "/", "2", "0", "2", "6">>, <<"1", "/", "1", "6", "/", "2", "0", "2", "6">>,
     <<"1", "/", "1", "7", "/", "2", "0", "2", "6">>, <<"1", "/", "1", "8", "/", "2", "0", "2", "6">>, <<"1", "/", "2", "9", "/", "2", "0", "2", "6">>, <<"1", "2", "/", "2", "8", "/", "2", "0", "2", "6">>, <<"2", "/", "2", "7", "/", "2", "0", "2", "8">>}

\* Rows of one location and item that differ in the date.
DateRowInputs ==
    {Row(<<"C", "0", "4", "0", "0", "2">>, <<"S", "T", "O", "R", "E", " ", "A">>, <<"1", "0", "0", " ", "M", "a", "i", "n", " ", "S", "t">>, <<"F", "F", "1", "0", "0", "B">>, 100, d, <<"N", "o">>, 5983) : d \in DateInputs}

\* Configuration and clock of a run: a test run and a live run.
Environments ==
    {<<DistributorConfig(<<"T", "E", "S", "T", " ", "D", "I", "S", "T">>, TRUE), Date(2026, 1, 20)>>,
     <<DistributorConfig(<<>>, FALSE), Date(2029, 12, 31)>>}

\* The outcome of a call: the value returned, or the exception raised.
Returned(bytes) == <<"ok", bytes>>

Raised(exception) == <<"raise", <<exception>>>>

\* df.columns. A frame without rows, as read from a file with a header and
\* no reportable row, has every column.
Columns(frame) ==
    IF frame = <<>> THEN DOMAIN Row(<<>>, <<>>, <<>>, <<>>, 0, <<>>, <<>>, 0)
    ELSE DOMAIN frame[1]

\* The outcome of build_records(df, config). Of no dates the maximum is NaT,
\* whose weekday is NaN, and timedelta(days=NaN) raises ValueError; the
\* ship-to loop reads row["ClassOfTrade"] and the purchase loop aggregates
\* the Invoice column, and either raises KeyError when the column is absent.
build_records_call(frame, cfg, today) ==
    IF frame = <<>> THEN Raised("ValueError")
    ELSE IF {"ClassOfTrade", "Invoice"} \ Columns(frame) # {} THEN Raised("KeyError")
    ELSE Returned(build_records(frame, cfg, today))

\* The state before a run: nothing built, nothing encoded.
Idle ==
    /\ hid = <<>> /\ bids = <<>> /\ sids = <<>> /\ purs = <<>> /\ tot = <<>>
    /\ output_result = <<>>
    /\ NothingRun
    /\ rec = <<>> /\ line = <<>>

\* A test run over rows that differ in location, item and quantity.
Init ==
    /\ df \in Frames(LocationRowInputs)
    /\ config = DistributorConfig(<<"T", "E", "S", "T", " ", "D", "I", "S", "T">>, TRUE)
    /\ now = Date(2026, 1, 20)
    /\ pc = "build"
    /\ Idle

\* hid, bids, sids, purs, tot = build_records(df, config). An exception
\* that nothing catches ends the process with status 1.
BuildRecords ==
    /\ pc = "build"
    /\ \E outcome \in {build_records_call(df, config, now)} :
            IF outcome[1] = "raise"
            THEN /\ pc' = "crashed"
                 /\ exit_status' = <<1>>
                 /\ UNCHANGED <<hid, bids, sids, purs, tot>>
            ELSE /\ hid' = outcome[2].hid
                 /\ bids' = outcome[2].bids
                 /\ sids' = outcome[2].sids
                 /\ purs' = outcome[2].purs
                 /\ tot' = outcome[2].tot
                 /\ pc' = "validate_output"
                 /\ UNCHANGED exit_status
    /\ UNCHANGED <<df, config, now, output_result, rec, line>>
    /\ UNCHANGED <<input_result, written, data, again>>

\* output_result = validate_output(bids, sids, purs, tot)
ValidateOutput ==
    /\ pc = "validate_output"
    /\ output_result' = validate_output(bids, sids, purs, tot)
    /\ pc' = "validated"
    /\ UNCHANGED <<df, config, now, hid, bids, sids, purs, tot, rec, line>>
    /\ UNCHANGED run_vars

Next == BuildRecords \/ ValidateOutput

Spec == Init /\ [][Next]_vars

\* A run over rows of one location that differ in item, promo and inventory.
InitItems ==
    /\ df \in Frames(ItemRowInputs)
    /\ config = DistributorConfig(<<"T", "E", "S", "T", " ", "D", "I", "S", "T">>, TRUE)
    /\ now = Date(2026, 1, 20)
    /\ pc = "build"
    /\ Idle

SpecItems == InitItems /\ [][Next]_vars

\* A run, test or live, over rows of one location and item that differ in
\* the date.
InitDates ==
    /\ df \in Frames(DateRowInputs)
    /\ \E e \in Environments : config = e[1] /\ now = e[2]
    /\ pc = "build"
    /\ Idle

SpecDates == InitDates /\ [][Next]_vars

(***************************************************************************)
(* Properties. What they need of the input is computed here from the rows  *)
(* themselves, not with the builder's operators.                           *)
(***************************************************************************)
\* build_records has returned and nothing has happened since.
Built == pc = "validate_output"

\* The location of a row, its Zip as text.
RowLocation(r) ==
    <<r.CustomerNumber, r.CustomerName, r.Address, r.City, r.State, NatToStr(r.Zip)>>

\* The location a ship-to record names.
SidLocation(s) ==
    <<s.customer_number, s.customer_name, s.address, s.city, s.state, s.zip_code>>

\* The indices of the rows of a location and item.
RowsOf(loc, item) ==
    {i \in 1..Len(df) : RowLocation(df[i]) = loc /\ df[i].ItemCode = item}

\* The sum of Qty over a set of row indices.
RECURSIVE QtyOver(_)
QtyOver(I) ==
    IF I = {} THEN 0
    ELSE LET i == CHOOSE j \in I : TRUE IN df[i].Qty + QtyOver(I \ {i})

\* The sum, in hundredths, of a float field over the first n records.
RECURSIVE FieldTotal(_, _, _)
FieldTotal(records, field, n) ==
    IF n = 0 THEN 0
    ELSE FieldTotal(records, field, n - 1) + Cents(records[n][field])

\* The shipping number k as an 8-digit text, k < 10.
ShippingNumber(k) == <<"0", "0", "0", "0", "0", "0", "0", Digits[k + 1]>>

\* C2: the total record of build_records counts the brand, ship-to and
\* purchase records returned with it and carries the sum of the purchase
\* quantities and the sum of the brand inventories.
C2_TotalsMatchRecords ==
    Built =>
        /\ tot.bid_count = Len(bids)
        /\ tot.sid_count = Len(sids)
        /\ tot.pur_count = Len(purs)
        /\ Cents(tot.total_quantity) = FieldTotal(purs, "quantity", Len(purs))
        /\ Cents(tot.total_inventory) = FieldTotal(bids, "inventory", Len(bids))

\* A run with two brands, two ship-tos and three purchases.
C2_Witness ==
    /\ Built
    /\ Len(bids) = 2 /\ Len(sids) = 2 /\ Len(purs) = 3
    /\ tot.pur_count = 3 /\ Cents(tot.total_quantity) = 77000

\* C3: the total is an independent cross-check: whenever the purchase records'
\* summed quantity differs from the sum of Qty over the rows, validate_output
\* on the built records reports an error.
C3_TotalCrossChecksPurchases ==
    (pc = "validated"
        /\ FieldTotal(purs, "quantity", Len(purs)) # 100 * QtyOver(1..Len(df)))
    => Len(output_result.errors) > 0

\* The (location, item code) pairs that occur in the rows.
LocationItemPairs == {<<RowLocation(df[i]), df[i].ItemCode>> : i \in 1..Len(df)}

\* The purchase record p is one of the location loc: a ship-to record of that
\* location carries p's customer number and shipping number.
PurOfLocation(p, loc) ==
    \E j \in 1..Len(sids) :
        /\ SidLocation(sids[j]) = loc
        /\ sids[j].customer_number = p.customer_number
        /\ sids[j].shipping_number = p.shipping_number

\* C4: build_records emits exactly one purchase record for each (location,
\* item code) pair of the rows, the location being the full tuple, and its
\* quantity is the sum of Qty over exactly the rows of that location and item.
C4_OnePurchasePerLocationItem ==
    Built =>
        /\ Len(purs) = Cardinality(LocationItemPairs)
        /\ \A pair \in LocationItemPairs :
            \E i \in 1..Len(purs) :
                /\ purs[i].sku = pair[2]
                /\ PurOfLocation(purs[i], pair[1])
                /\ Cents(purs[i].quantity) = 100 * QtyOver(RowsOf(pair[1], pair[2]))

\* The distinct locations of a customer in the rows.
LocationsOf(cust) ==
    {RowLocation(df[i]) : i \in {j \in 1..Len(df) : df[j].CustomerNumber = cust}}

\* C5: for every customer, the shipping numbers _build_sid_lookup assigns to
\* the customer's locations are pairwise distinct and are exactly 1..k as
\* 8-digit texts, k the number of the customer's distinct locations, in
\* whatever order the rows come.
C5_ShippingNumbersContiguous ==
    Built =>
        LET lookup == _build_sid_lookup(df)
        IN  \A i \in 1..Len(df) :
                LET cust == df[i].CustomerNumber
                    mine == {j \in 1..Len(lookup) : lookup[j][1][1] = cust}
                IN  /\ {lookup[j][1] : j \in mine} = LocationsOf(cust)
                    /\ Cardinality(mine) = Cardinality(LocationsOf(cust))
                    /\ {lookup[j][2] : j \in mine}
                         = {ShippingNumber(k) : k \in 1..Cardinality(LocationsOf(cust))}
                    /\ \A j1, j2 \in mine : lookup[j1][2] = lookup[j2][2] => j1 = j2

\* A customer with three locations, two of them at one address, and the
\* ship-to records carrying the numbers 1, 2, 3.
C5_Witness ==
    /\ Built
    /\ Len(df) = 3
    /\ Cardinality(LocationsOf(df[1].CustomerNumber)) = 3
    /\ StrLess(df[1].Address, df[2].Address)
    /\ {sids[j].shipping_number : j \in 1..Len(sids)}
         = {ShippingNumber(1), ShippingNumber(2), ShippingNumber(3)}

\* The calendar, written out: the date texts of the rows with their YYYYMMDD
\* form and their day number (days since 2026-01-01).
DateTable ==
    <<
      <<<<"1", "/", "9", "/", "2", "0", "2", "6">>, <<"2", "0", "2", "6", "0", "1", "0", "9">>, 8>>,
      <<<<"1", "/", "1", "2", "/", "2", "0", "2", "6">>, <<"2", "0", "2", "6", "0", "1", "1", "2">>, 11>>,
      <<<<"1", "/", "1", "3", "/", "2", "0", "2", "6">>, <<"2", "0", "2", "6", "0", "1", "1", "3">>, 12>>,
      <<<<"1", "/", "1", "4", "/", "2", "0", "2", "6">>, <<"2", "0", "2", "6", "0", "1", "1", "4">>, 13>>,
      <<<<"1", "/", "1", "6", "/", "2", "0", "2", "6">>, <<"2", "0", "2", "6", "0", "1", "1", "6">>, 15>>,
      <<<<"1", "/", "1", "7", "/", "2", "0", "2", "6">>, <<"2", "0", "2", "6", "0", "1", "1", "7">>, 16>>,
      <<<<"1", "/", "1", "8", "/", "2", "0", "2", "6">>, <<"2", "0", "2", "6", "0", "1", "1", "8">>, 17>>,
      <<<<"1", "/", "2", "9", "/", "2", "0", "2", "6">>, <<"2", "0", "2", "6", "0", "1", "2", "9">>, 28>>,
      <<<<"1", "2", "/", "2", "8", "/", "2", "0", "2", "6">>, <<"2", "0", "2", "6", "1", "2", "2", "8">>, 361>>,
      <<<<"2", "/", "2", "7", "/", "2", "0", "2", "8">>, <<"2", "0", "2", "8", "0", "2", "2", "7">>, 787>>
    >>

\* The Saturdays that follow them, with their day number. 2026-01-01 is a
\* Thursday: day n is a Saturday iff n % 7 = 2.
SaturdayTable ==
    <<
      <<<<"2", "0", "2", "6", "0", "1", "1", "0">>, 9>>,
      <<<<"2", "0", "2", "6", "0", "1", "1", "7">>, 16>>,
      <<<<"2", "0", "2", "6", "0", "1", "2", "4">>, 23>>,
      <<<<"2", "0", "2", "6", "0", "1", "3", "1">>, 30>>,
      <<<<"2", "0", "2", "7", "0", "1", "0", "2">>, 366>>,
      <<<<"2", "0", "2", "8", "0", "3", "0", "4">>, 793>>
    >>

\* The day number of a date text of the rows.
DayOfText(text) == DateTable[CHOOSE i \in 1..Len(DateTable) : DateTable[i][1] = text][3]

\* The YYYYMMDD form of a date text of the rows.
YmdOfText(text) == DateTable[CHOOSE i \in 1..Len(DateTable) : DateTable[i][1] = text][2]

\* The day number of the latest Date of a set of rows.
LatestDay(I) == CHOOSE n \in {DayOfText(df[i].Date) : i \in I} :
                    \A i \in I : DayOfText(df[i].Date) <= n

\* C6: _week_end_date returns, as YYYYMMDD, the earliest Saturday on or after
\* the latest date of the set: a Saturday maps to itself, any other day to a
\* date 1 to 6 days later.
C6_WeekEndIsNextSaturday ==
    Built =>
        \E i \in 1..Len(SaturdayTable) :
            /\ hid.end_date = SaturdayTable[i][1]
            /\ tot.end_date = SaturdayTable[i][1]
            /\ SaturdayTable[i][2] % 7 = 2
            /\ SaturdayTable[i][2] - LatestDay(1..Len(df)) \in 0..6

\* Three dates, the latest not the last row, rolled over the end of a leap
\* February; and a Saturday kept.
C6_Witness ==
    /\ Built
    /\ Len(df) = 3
    /\ df[2].Date = <<"2", "/", "2", "7", "/", "2", "0", "2", "8">>
    /\ df[3].Date = <<"1", "/", "1", "7", "/", "2", "0", "2", "6">>
    /\ hid.end_date = <<"2", "0", "2", "8", "0", "3", "0", "4">>

\* C7: each purchase record's transaction_date is the chronologically latest
\* Date among the rows of its (location, item code) group, as YYYYMMDD.
C7_TransactionDateIsLatest ==
    Built =>
        \A i \in 1..Len(purs) :
            \A pair \in LocationItemPairs :
                (purs[i].sku = pair[2] /\ PurOfLocation(purs[i], pair[1]))
                => \E r \in RowsOf(pair[1], pair[2]) :
                    /\ DayOfText(df[r].Date) = LatestDay(RowsOf(pair[1], pair[2]))
                    /\ purs[i].transaction_date = YmdOfText(df[r].Date)

\* The promo texts that flag a promotion.
PromoYes == {<<"Y", "e", "s">>, <<"y", "e", "s">>, <<"Y">>}

\* The indices of the rows of an item.
RowsOfItem(item) == {i \in 1..Len(df) : df[i].ItemCode = item}

\* The brand records of an item.
BidsOfItem(item) == {j \in 1..Len(bids) : bids[j].sku = item}

\* C8: for each item code the brand record's promotion_indicator is "Y" iff at
\* least one row of that item is flagged promo (Yes, yes or Y), "N" otherwise,
\* in whatever order the rows come.
C8_PromoIfAnyRow ==
    Built =>
        \A i \in 1..Len(df) :
            LET item == df[i].ItemCode
            IN  /\ BidsOfItem(item) # {}
                /\ \A j \in BidsOfItem(item) :
                    bids[j].promotion_indicator
                        = IF \E r \in RowsOfItem(item) : df[r].Promo \in PromoYes
                          THEN <<"Y">> ELSE <<"N">>

\* An item whose first row is not promo and whose last is, with brand "Y",
\* beside an item with an unmapped promo text, with brand "N".
C8_Witness ==
    /\ Built
    /\ Len(df) = 3
    /\ df[1].ItemCode = df[3].ItemCode /\ df[1].ItemCode # df[2].ItemCode
    /\ df[1].Promo = <<"N", "o">> /\ df[3].Promo = <<"Y", "e", "s">> /\ df[2].Promo = <<"Y", "E", "S">>
    /\ \E j \in 1..Len(bids) : bids[j].promotion_indicator = <<"Y">>
    /\ \E j \in 1..Len(bids) : bids[j].promotion_indicator = <<"N">>

\* C9: for each item code the brand record's inventory is the maximum
\* OnHandInventory over the rows of that item.
C9_InventoryIsMax ==
    Built =>
        \A i \in 1..Len(df) :
            LET item == df[i].ItemCode
            IN  /\ BidsOfItem(item) # {}
                /\ \A j \in BidsOfItem(item) :
                    /\ ~bids[j].inventory.neg /\ bids[j].inventory.cents = 0
                    /\ \E r \in RowsOfItem(item) :
                        df[r].OnHandInventory = bids[j].inventory.whole
                    /\ \A r \in RowsOfItem(item) :
                        df[r].OnHandInventory <= bids[j].inventory.whole

\* Three rows of one item whose largest inventory is in the middle row.
C9_Witness ==
    /\ Built
    /\ Len(df) = 3
    /\ df[1].ItemCode = df[2].ItemCode /\ df[2].ItemCode = df[3].ItemCode
    /\ df[1].OnHandInventory = 2000 /\ df[2].OnHandInventory = 5983
    /\ df[3].OnHandInventory = 2000
    /\ Len(bids) = 1 /\ bids[1].inventory = Float(5983)

\* C10: build_records returns exactly one brand record per distinct item code
\* of the rows and exactly one ship-to record per distinct location tuple.
C10_OneBrandPerItemOneShipToPerLocation ==
    Built =>
        /\ Len(bids) = Cardinality({df[i].ItemCode : i \in 1..Len(df)})
        /\ \A i \in 1..Len(df) : Cardinality(BidsOfItem(df[i].ItemCode)) = 1
        /\ Len(sids) = Cardinality({RowLocation(df[i]) : i \in 1..Len(df)})
        /\ \A i \in 1..Len(df) :
            Cardinality({j \in 1..Len(sids) : SidLocation(sids[j]) = RowLocation(df[i])}) = 1

\* Three rows of two items at two locations that differ in the name alone.
C10_Witness ==
    /\ Built
    /\ Len(df) = 3
    /\ Len(bids) = 2 /\ Len(sids) = 2
    /\ sids[1].customer_number = sids[2].customer_number
    /\ sids[1].address = sids[2].address
    /\ sids[1].customer_name # sids[2].customer_name

(***************************************************************************)
(* fmt on its own: a call with any value, width, justification and fill.   *)
(***************************************************************************)
\* Values: None, empty, shorter than, as long as and longer than the widths.
FmtValues == {None, <<>>, <<"1", "2">>, <<"A", "B", "C">>, <<"A", "B", "C", "D", "E", "F", "G", "H">>, <<"T", "O", "O", "L", "O", "N", "G", "V", "A", "L", "U", "E">>}

\* The arguments of a call of fmt.
FmtInputs ==
    [value : FmtValues, width : 0..MaxFmtWidth, justify : {"L", "R"}, fill : {" ", "0"}]

InitFmt ==
    /\ rec \in FmtInputs
    /\ line = <<>>
    /\ pc = "fmt"
    /\ df = <<>> /\ config = <<>> /\ now = <<>>
    /\ hid = <<>> /\ bids = <<>> /\ sids = <<>> /\ purs = <<>> /\ tot = <<>>
    /\ output_result = <<>>
    /\ NothingRun

\* line = fmt(value, width, justify, fill)
Fmt ==
    /\ pc = "fmt"
    /\ line' = fmt(rec.value, rec.width, rec.justify, rec.fill)
    /\ pc' = "formatted"
    /\ UNCHANGED <<df, config, now, hid, bids, sids, purs, tot, output_result, rec>>
    /\ UNCHANGED run_vars

NextFmt == Fmt

SpecFmt == InitFmt /\ [][NextFmt]_vars

\* C11: fmt returns exactly width characters for every value: a value longer
\* than width is cut to its first width characters, a shorter one is padded
\* with the fill character on the right when justify is "L" and on the left
\* when it is "R"; None is treated as the empty string.
C11_FmtExactWidth ==
    pc = "formatted" =>
        LET v   == IF rec.value = None THEN <<>> ELSE rec.value
            pad == rec.width - Len(v)
        IN  /\ Len(line) = rec.width
            /\ \A i \in 1..rec.width :
                line[i] = IF pad <= 0 THEN v[i]
                          ELSE IF rec.justify = "L"
                               THEN (IF i <= Len(v) THEN v[i] ELSE rec.fill)
                               ELSE (IF i <= pad THEN rec.fill ELSE v[i - pad])

\* A value of 12 characters cut to 8.
C11_Witness ==
    /\ pc = "formatted"
    /\ rec.value = <<"T", "O", "O", "L", "O", "N", "G", "V", "A", "L", "U", "E">> /\ rec.width = 8
    /\ line = <<"T", "O", "O", "L", "O", "N", "G", "V">>

(***************************************************************************)
(* fmt_real on its own: a call with any value and width.                   *)
(***************************************************************************)
\* Hundredths and thousandths of the values: a thousandths digit of 5 stands
\* for an exact tie, which a binary float holds only for the eighths .125,
\* .375, .625 and .875.
FractionChoices ==
    {<<c, t>> : c \in {0, 12, 37, 50, 62, 87, 99}, t \in {0, 4, 6}}
    \cup {<<12, 5>>, <<37, 5>>, <<62, 5>>, <<87, 5>>}

\* Whole parts: 0, small, and around the limits of 11 columns.
WholeChoices == {0, 4, 570, 12345, 9999999, 99999999, 100000000}

\* The widths of the measure fields of the records, and a narrow one.
RealWidths == {4, 11, 15}

\* The arguments of a call of fmt_real.
RealInputs ==
    {[value |-> Real3(n, w, f[1], f[2]), width |-> width] :
        n \in BOOLEAN, w \in WholeChoices, f \in FractionChoices, width \in RealWidths}

InitReal ==
    /\ rec \in RealInputs
    /\ line = <<>>
    /\ pc = "fmt_real"
    /\ df = <<>> /\ config = <<>> /\ now = <<>>
    /\ hid = <<>> /\ bids = <<>> /\ sids = <<>> /\ purs = <<>> /\ tot = <<>>
    /\ output_result = <<>>
    /\ NothingRun

\* line = fmt_real(value, width)
FmtReal ==
    /\ pc = "fmt_real"
    /\ line' = fmt_real(rec.value, rec.width)
    /\ pc' = "real_formatted"
    /\ UNCHANGED <<df, config, now, hid, bids, sids, purs, tot, output_result, rec>>
    /\ UNCHANGED run_vars

NextReal == FmtReal

SpecReal == InitReal /\ [][NextReal]_vars

\* The value is below zero.
IsNegative(x) == x.neg /\ (x.billions > 0 \/ x.whole > 0 \/ x.cents > 0 \/ x.thousandth > 0)

\* float(text) of a plain decimal numeral: an optional sign, digits, a point,
\* digits; <<>> when the text is not one. Two fraction digits are read.
ParseDecimal(text) ==
    LET signed == Len(text) > 0 /\ text[1] = "-"
        body   == IF signed THEN Tail(text) ELSE text
        dot    == {i \in 1..Len(body) : body[i] = "."}
    IN  IF Cardinality(dot) # 1 THEN <<>>
        ELSE LET p        == CHOOSE i \in dot : TRUE
                 int_part == SubSeq(body, 1, p - 1)
                 fraction == SubSeq(body, p + 1, Len(body))
             IN  IF int_part = <<>> \/ Len(fraction) # 2
                    \/ (\E i \in 1..Len(int_part) : ~IsDigit(int_part[i]))
                    \/ (\E i \in 1..2 : ~IsDigit(fraction[i]))
                 THEN <<>>
                 ELSE <<Real(signed, StrToNat(int_part), StrToNat(fraction))>>

\* The magnitudes with two decimals nearest to the magnitude of x: the one
\* below when the thousandths are under 5, the one above when over, both on
\* a tie.
NearestHundredths(x) ==
    LET below == <<x.whole, x.cents>>
        above == IF x.cents = 99 THEN <<x.whole + 1, 0>> ELSE <<x.whole, x.cents + 1>>
    IN  IF x.thousandth < 5 THEN {below}
        ELSE IF x.thousandth > 5 THEN {above}
        ELSE {below, above}

\* C12: fmt_real renders the value with exactly two fraction digits; a
\* negative value gives "-" followed by the absolute value zero-padded on the
\* left to width-1 characters, a non-negative value the value zero-padded on
\* the left to width characters, with no sign character.
C12_FmtRealSignAndPadding ==
    pc = "real_formatted" =>
        LET negative == IsNegative(rec.value)
            body     == IF negative THEN Tail(line) ELSE line
            target   == IF negative THEN rec.width - 1 ELSE rec.width
            n        == Len(body)
            parsed   == ParseDecimal(body)
        IN  /\ negative => (Len(line) > 0 /\ line[1] = "-")
            /\ n >= 4 /\ body[n - 2] = "."
            /\ \A i \in 1..n : i # n - 2 => IsDigit(body[i])
            /\ n >= target
            /\ n > target => (body[1] # "0" \/ body[2] = ".")
            /\ parsed # <<>>
            /\ <<parsed[1].whole, parsed[1].cents>> \in NearestHundredths(rec.value)

\* -4.0 in 11 columns: the sign, then ten characters.
C12_Witness ==
    /\ pc = "real_formatted"
    /\ rec.value = Real3(TRUE, 4, 0, 0) /\ rec.width = 11
    /\ line = <<"-", "0", "0", "0", "0", "0", "0", "4", ".", "0", "0">>

\* C13: for every non-negative value, parsing the text fmt_real returns as a
\* decimal number recovers the value rounded to two decimal places.
C13_FmtRealRoundTrip ==
    (pc = "real_formatted" /\ ~IsNegative(rec.value)) =>
        LET parsed == ParseDecimal(line)
        IN  /\ parsed # <<>>
            /\ ~parsed[1].neg
            /\ <<parsed[1].whole, parsed[1].cents>> \in NearestHundredths(rec.value)

\* 99999999.996 comes back as 100000000.00.
C13_Witness ==
    /\ pc = "real_formatted"
    /\ rec.value = Real3(FALSE, 99999999, 99, 6) /\ rec.width = 11
    /\ ParseDecimal(line) = <<Real(FALSE, 100000000, 0)>>

(***************************************************************************)
(* writer.py                                                               *)
(***************************************************************************)
CRLF == <<"\r", "\n">>

\* The bytes of one character in an encoding: an ASCII character is its own
\* byte; the accented e is two bytes in UTF-8, one in cp1252, none in ASCII.
EncodeChar(c, encoding) ==
    IF c # NonAscii THEN <<c>>
    ELSE IF encoding = "utf-8" THEN <<"0xC3", "0xA9">>
    ELSE IF encoding = "cp1252" THEN <<"0xE9">>
    ELSE <<>>

\* The encodings a text-mode file takes from the locale.
FileEncodings == {"utf-8", "cp1252"}

\* Can the text be encoded: any text in UTF-8 and cp1252, ASCII text in ASCII.
Encodable(text, encoding) ==
    encoding # "ascii" \/ \A i \in 1..Len(text) : text[i] # NonAscii

\* str.encode(encoding) of an encodable text.
RECURSIVE Encode(_, _)
Encode(text, encoding) ==
    LET special == {i \in 1..Len(text) : text[i] = NonAscii}
    IN  IF special = {} THEN text
        ELSE LET i == CHOOSE j \in special : \A k \in special : j <= k
             IN  SubSeq(text, 1, i - 1) \o EncodeChar(text[i], encoding)
                 \o Encode(SubSeq(text, i + 1, Len(text)), encoding)

\* The lines of the records in file order: HID, BIDs, SIDs, PURs, TOT.
RecordLines(h, bid_records, sid_records, pur_records, total) ==
    <<to_line(h)>>
    \o [i \in 1..Len(bid_records) |-> to_line(bid_records[i])]
    \o [i \in 1..Len(sid_records) |-> to_line(sid_records[i])]
    \o [i \in 1..Len(pur_records) |-> to_line(pur_records[i])]
    \o <<to_line(total)>>

\* Every line followed by CR+LF, one after the other.
RECURSIVE WriteLines(_)
WriteLines(lines) ==
    IF lines = <<>> THEN <<>> ELSE Head(lines) \o CRLF \o WriteLines(Tail(lines))

\* "\r\n".join(lines)
RECURSIVE JoinCRLF(_)
JoinCRLF(lines) ==
    IF Len(lines) = 1 THEN lines[1] ELSE Head(lines) \o CRLF \o JoinCRLF(Tail(lines))

\* write_msa: the bytes of the file, opened in text mode with newline="" in
\* the locale's encoding.
write_msa(h, bid_records, sid_records, pur_records, total, encoding) ==
    Returned(Encode(WriteLines(RecordLines(h, bid_records, sid_records, pur_records, total)),
                    encoding))

\* write_msa_bytes: the lines joined by CR+LF, encoded as ASCII, then CR+LF.
write_msa_bytes(h, bid_records, sid_records, pur_records, total) ==
    LET text == JoinCRLF(RecordLines(h, bid_records, sid_records, pur_records, total))
    IN  IF Encodable(text, "ascii") THEN Returned(Encode(text, "ascii") \o CRLF)
        ELSE Raised("UnicodeEncodeError")

(***************************************************************************)
(* The writers on their own: built records are written to a file and       *)
(* returned as bytes.                                                      *)
(***************************************************************************)
WriterConfig == DistributorConfig(<<"T", "E", "S", "T", " ", "D", "I", "S", "T">>, TRUE)

\* Brand records: a plain one, and one whose description holds a line break.
BidChoices ==
    {BIDRecord(<<"8", "1", "2", "6", "1", "5", "0", "0", "6", "7", "0", "0">>, <<"F", "F", "1", "0", "0", "B">>, <<"C", "l", "i", "p", "p", "e", "r", " ", "L", "a", "r", "g", "e", " ", "C", "i", "g", "a", "r">>, <<"2", "0", "0">>, <<"C", "A", "R", "T", "O", "N">>,
               <<"N">>, <<"8", "1", "2", "6", "1", "5", "0", "0", "6", "7", "0", "0">>, <<"0", "3">>, Float(5983)),
     BIDRecord(<<"8", "1", "2", "6", "1", "5", "0", "0", "6", "7", "0", "1">>, <<"S", "M", "O", "1", "0", "0", "B", "X">>, <<"C", "l", "i", "p", "p", "e", "r", " ", "L", "a", "r", "g", "e">> \o <<"\n">> \o <<"C", "i", "g", "a", "r", " ", "S", "m", "o", "o", "t", "h">>,
               <<"2", "0", "0">>, <<"C", "A", "R", "T", "O", "N">>, <<"Y">>, <<"8", "1", "2", "6", "1", "5", "0", "0", "6", "7", "0", "1">>, <<"0", "3">>, Float(2000))}

\* Ship-to records: a plain one, and one whose name holds an accented letter.
SidChoices ==
    {SIDRecord(<<"C", "0", "4", "0", "0", "2">>, <<"0", "0", "0", "0", "0", "0", "0", "1">>, <<"S", "T", "O", "R", "E", " ", "A">>, <<"1", "0", "0", " ", "M", "a", "i", "n", " ", "S", "t">>, <<"C", "e", "r", "e", "s">>, <<"C", "A">>,
               <<"9", "5", "3", "0", "7">>, <<"U", "S", "A">>, <<"W", "H", "O", "L", "E", "S", "A", "L", "E">>, <<"N">>),
     SIDRecord(<<"C", "0", "3", "2", "1", "8">>, <<"0", "0", "0", "0", "0", "0", "0", "1">>, <<"C", "A", "F">> \o <<NonAscii>>, <<"2", "0", "0", " ", "O", "a", "k", " ", "A", "v", "e">>, <<"F", "r", "e", "s", "n", "o">>,
               <<"C", "A">>, <<"9", "3", "7", "2", "7">>, <<"U", "S", "A">>, <<"R", "E", "T", "A", "I", "L">>, <<"Y">>)}

\* Purchase records.
PurChoices ==
    {PURRecord(<<"C", "0", "4", "0", "0", "2">>, <<"0", "0", "0", "0", "0", "0", "0", "1">>, <<"F", "F", "1", "0", "0", "B">>, <<"I", "N", "V", "/", "2", "0", "2", "6", "/", "0", "0", "1", "7", "9">>, <<"2", "0", "2", "6", "0", "1", "1", "6">>,
               Float(570), NoFloat),
     PURRecord(<<"C", "0", "3", "2", "1", "8">>, <<"0", "0", "0", "0", "0", "0", "0", "1">>, <<"S", "M", "O", "1", "0", "0", "B", "X">>, <<"I", "N", "V", "/", "2", "0", "2", "6", "/", "0", "0", "1", "6", "9">>, <<"2", "0", "2", "6", "0", "1", "1", "4">>,
               Float(100), Some(Real(FALSE, 1, 50)))}

\* The lists of up to MaxRecords records of a set.
Lists(records) == UNION {[1..n -> records] : n \in 0..MaxRecords}

InitWrite ==
    /\ bids \in Lists(BidChoices)
    /\ sids \in Lists(SidChoices)
    /\ purs \in Lists(PurChoices)
    /\ hid = BuildHid(WriterConfig, <<"2", "0", "2", "6", "0", "1", "1", "7">>, <<"2", "0", "2", "6", "0", "1", "2", "0">>)
    /\ tot = BuildTot(WriterConfig, <<"2", "0", "2", "6", "0", "1", "1", "7">>, bids, sids, purs)
    /\ config = WriterConfig
    /\ df = <<>> /\ now = <<>>
    /\ pc = "write"
    /\ output_result = <<>>
    /\ NothingRun
    /\ rec = <<>> /\ line = <<>>

\* write_msa(path, hid, bids, sids, purs, tot)
WriteMsaFile ==
    /\ pc = "write"
    /\ written = <<>>
    /\ \E encoding \in FileEncodings :
            written' = write_msa(hid, bids, sids, purs, tot, encoding)
    /\ UNCHANGED <<df, config, now, pc, hid, bids, sids, purs, tot, output_result, rec, line>>
    /\ UNCHANGED <<input_result, data, exit_status, again>>

\* data = write_msa_bytes(hid, bids, sids, purs, tot)
WriteMsaBytes ==
    /\ pc = "write"
    /\ data = <<>>
    /\ data' = write_msa_bytes(hid, bids, sids, purs, tot)
    /\ UNCHANGED <<df, config, now, pc, hid, bids, sids, purs, tot, output_result, rec, line>>
    /\ UNCHANGED <<input_result, written, exit_status, again>>

NextWrite == WriteMsaFile \/ WriteMsaBytes

SpecWrite == InitWrite /\ [][NextWrite]_vars

\* The segments of some bytes that end in CR+LF, in order, and what is left
\* after the last of them.
RECURSIVE SplitCRLF(_)
SplitCRLF(bytes) ==
    LET ends == {i \in 1..(Len(bytes) - 1) : bytes[i] = "\r" /\ bytes[i + 1] = "\n"}
    IN  IF ends = {} THEN [lines |-> <<>>, rest |-> bytes]
        ELSE LET i    == CHOOSE j \in ends : \A k \in ends : j <= k
                 tail == SplitCRLF(SubSeq(bytes, i + 2, Len(bytes)))
             IN  [lines |-> <<SubSeq(bytes, 1, i - 1)>> \o tail.lines, rest |-> tail.rest]

\* The records in file order.
RecordsInOrder == <<hid>> \o bids \o sids \o purs \o <<tot>>

\* The output is the records' lines in order, each ended by CR+LF.
OrderedAndTerminated(bytes) ==
    LET split == SplitCRLF(bytes)
    IN  /\ split.rest = <<>>
        /\ Len(split.lines) = 2 + Len(bids) + Len(sids) + Len(purs)
        /\ \A k \in 1..Len(split.lines) :
            \E encoding \in FileEncodings :
                split.lines[k] = Encode(to_line(RecordsInOrder[k]), encoding)

\* No LF without a CR before it.
NoBareLF(bytes) ==
    \A i \in 1..Len(bytes) : bytes[i] = "\n" => (i > 1 /\ bytes[i - 1] = "\r")

\* C14: the file write_msa writes is the HID line, one line per brand record
\* in list order, one per ship-to record, one per purchase record, then the
\* TOT line: 2 + |bids| + |sids| + |purs| lines, each, the last included,
\* ended by CR+LF, and no LF anywhere without its CR.
C14_FileOrderAndLineEndings ==
    (pc = "write" /\ written # <<>>) =>
        /\ written[1] = "ok"
        /\ OrderedAndTerminated(written[2])
        /\ NoBareLF(written[2])

\* C15: for any records, the bytes write_msa_bytes returns are the bytes of
\* the file write_msa writes for the same records.
C15_BytesEqualFile ==
    (pc = "write" /\ written # <<>> /\ data # <<>>) => data = written

(***************************************************************************)
(* validate_output on its own: called on any records and any total.        *)
(***************************************************************************)
\* Brand records: one that fits, and one whose inventory of -10000000 takes
\* twelve characters.
WideBidChoices ==
    {BIDRecord(<<"8", "1", "2", "6", "1", "5", "0", "0", "6", "7", "0", "0">>, <<"F", "F", "1", "0", "0", "B">>, <<"C", "l", "i", "p", "p", "e", "r", " ", "L", "a", "r", "g", "e", " ", "C", "i", "g", "a", "r">>, <<"2", "0", "0">>, <<"C", "A", "R", "T", "O", "N">>,
               <<"N">>, <<"8", "1", "2", "6", "1", "5", "0", "0", "6", "7", "0", "0">>, <<"0", "3">>, Float(5983)),
     BIDRecord(<<"8", "1", "2", "6", "1", "5", "0", "0", "6", "7", "0", "1">>, <<"S", "M", "O", "1", "0", "0", "B", "X">>, <<"C", "l", "i", "p", "p", "e", "r", " ", "L", "a", "r", "g", "e", " ", "C", "i", "g", "a", "r", " ", "S", "m", "o", "o", "t", "h">>, <<"2", "0", "0">>,
               <<"C", "A", "R", "T", "O", "N">>, <<"Y">>, <<"8", "1", "2", "6", "1", "5", "0", "0", "6", "7", "0", "1">>, <<"0", "3">>, Float(-10000000))}

\* Ship-to records: every field of a ship-to record is cut to its width.
PlainSidChoices ==
    {SIDRecord(<<"C", "0", "4", "0", "0", "2">>, <<"0", "0", "0", "0", "0", "0", "0", "1">>, <<"S", "T", "O", "R", "E", " ", "A">>, <<"1", "0", "0", " ", "M", "a", "i", "n", " ", "S", "t">>, <<"C", "e", "r", "e", "s">>, <<"C", "A">>,
               <<"9", "5", "3", "0", "7">>, <<"U", "S", "A">>, <<"W", "H", "O", "L", "E", "S", "A", "L", "E">>, <<"N">>)}

\* Purchase records: one that fits, and one whose dollars of 100000000 take
\* twelve characters.
WidePurChoices ==
    {PURRecord(<<"C", "0", "4", "0", "0", "2">>, <<"0", "0", "0", "0", "0", "0", "0", "1">>, <<"F", "F", "1", "0", "0", "B">>, <<"I", "N", "V", "/", "2", "0", "2", "6", "/", "0", "0", "1", "7", "9">>, <<"2", "0", "2", "6", "0", "1", "1", "6">>,
               Real(FALSE, 570, 50), NoFloat),
     PURRecord(<<"C", "0", "4", "0", "0", "2">>, <<"0", "0", "0", "0", "0", "0", "0", "1">>, <<"S", "M", "O", "1", "0", "0", "B", "X">>, <<"I", "N", "V", "/", "2", "0", "2", "6", "/", "0", "0", "1", "7", "9">>, <<"2", "0", "2", "6", "0", "1", "1", "6">>,
               Float(100), Some(Float(100000000)))}

\* How a total may depart from the records: not at all; in a count; in two
\* counts; in both sums; in everything; and in nothing that is checked, with
\* total dollars of 10^12, which take sixteen characters.
Departures ==
    {{}, {"bid_count"}, {"sid_count", "pur_count"}, {"total_quantity", "total_inventory"},
     {"bid_count", "sid_count", "pur_count", "total_quantity", "total_inventory"},
     {"total_dollars"}}

\* The total of the records, departing in the fields named.
TotalDeparting(bid_records, sid_records, pur_records, fields) ==
    LET count(name, n) == IF name \in fields THEN n + 1 ELSE n
    IN  TOTRecord(WriterConfig.distributor_id, <<"2", "0", "2", "6", "0", "1", "1", "7">>,
                  count("bid_count", Len(bid_records)),
                  count("sid_count", Len(sid_records)),
                  count("pur_count", Len(pur_records)),
                  IF "total_quantity" \in fields
                  THEN Minus(SumField(pur_records, "quantity"), Real(FALSE, 1, 0))
                  ELSE SumField(pur_records, "quantity"),
                  IF "total_dollars" \in fields
                  THEN Some(Real4(FALSE, 1000, 0, 0, 0)) ELSE NoFloat,
                  IF "total_inventory" \in fields
                  THEN Minus(SumField(bid_records, "inventory"), Real(TRUE, 0, 2))
                  ELSE SumField(bid_records, "inventory"))

InitValidate ==
    /\ bids \in Lists(WideBidChoices)
    /\ sids \in Lists(PlainSidChoices)
    /\ purs \in Lists(WidePurChoices)
    /\ hid = BuildHid(WriterConfig, <<"2", "0", "2", "6", "0", "1", "1", "7">>, <<"2", "0", "2", "6", "0", "1", "2", "0">>)
    /\ \E fields \in Departures : tot = TotalDeparting(bids, sids, purs, fields)
    /\ config = WriterConfig
    /\ df = <<>> /\ now = <<>>
    /\ pc = "validate_output"
    /\ output_result = <<>>
    /\ NothingRun
    /\ rec = <<>> /\ line = <<>>

NextValidate == ValidateOutput

SpecValidate == InitValidate /\ [][NextValidate]_vars

\* The outcome of validate_output is there.
Validated == pc = "validated"

WrongWidth(records, width) == {i \in 1..Len(records) : Len(to_line(records[i])) # width}

\* The sum over the first n records of one part of a float field.
RECURSIVE PartTotal(_, _, _, _)
PartTotal(records, field, part, n) ==
    IF n = 0 THEN 0
    ELSE LET x == records[n][field]
         IN  PartTotal(records, field, part, n - 1)
             + (IF x.neg THEN 0 - x[part] ELSE x[part])

\* The total's field less the sum of the records' field, in hundredths.
Apart(total_field, records, field) ==
    LET sign == IF tot[total_field].neg THEN 0 - 1 ELSE 1
    IN  100 * (sign * tot[total_field].whole - PartTotal(records, field, "whole", Len(records)))
        + (sign * tot[total_field].cents - PartTotal(records, field, "cents", Len(records)))

\* The checks that the records and the total violate, each with the position
\* of the record it is about (0 for a check of the total).
ViolatedChecks ==
    (IF tot.bid_count # Len(bids) THEN {Error("bid_count", 0)} ELSE {})
    \cup (IF tot.sid_count # Len(sids) THEN {Error("sid_count", 0)} ELSE {})
    \cup (IF tot.pur_count # Len(purs) THEN {Error("pur_count", 0)} ELSE {})
    \cup (IF Apart("total_quantity", purs, "quantity") \notin {-1, 0, 1}
          THEN {Error("total_quantity", 0)} ELSE {})
    \cup (IF Apart("total_inventory", bids, "inventory") \notin {-1, 0, 1}
          THEN {Error("total_inventory", 0)} ELSE {})
    \cup {Error("BID width", i - 1) : i \in WrongWidth(bids, 261)}
    \cup {Error("SID width", i - 1) : i \in WrongWidth(sids, 551)}
    \cup {Error("PUR width", i - 1) : i \in WrongWidth(purs, 130)}

\* C17: validate_output runs every check whatever failed before: the errors
\* returned are one for each violated check (a count that is off, a sum more
\* than 0.01 off, each BID, SID or PUR record of the wrong width) and no
\* others, and the result is valid exactly when no check is violated.
C17_AllErrorsCollected ==
    Validated =>
        /\ {output_result.errors[i] : i \in 1..Len(output_result.errors)} = ViolatedChecks
        /\ Len(output_result.errors) = Cardinality(ViolatedChecks)
        /\ is_valid(output_result) <=> ViolatedChecks = {}

\* All three counts and both sums off and two records too wide: seven errors.
C17_Witness ==
    /\ Validated
    /\ tot.bid_count # Len(bids) /\ tot.sid_count # Len(sids) /\ tot.pur_count # Len(purs)
    /\ WrongWidth(bids, 261) # {} /\ WrongWidth(purs, 130) # {}
    /\ Len(output_result.errors) = 7
    /\ ~is_valid(output_result)

(***************************************************************************)
(* validator.py: validate_input. An error or warning is a record of the    *)
(* check that reports it, the columns it names and the values its message  *)
(* lists; the outcome of a call is Returned(result) or Raised(exception).  *)
(***************************************************************************)
REQUIRED_COLUMNS ==
    <<"CustomerNumber", "CustomerName", "Date", "Address", "City", "State",
      "Zip", "ItemCode", "ItemDescription", "UPCCode", "Qty",
      "OnHandInventory", "Categories", "Promo", "CashCarry", "unit">>

InputError(check, columns, values) == [check |-> check, columns |-> columns, values |-> values]

\* [c for c in REQUIRED_COLUMNS if c not in df.columns]
MissingColumns(frame) == SelectSeq(REQUIRED_COLUMNS, LAMBDA c : c \notin Columns(frame))

\* str(value) of a text cell: NaN prints as "nan".
StrOf(cell) == IF cell = NaN THEN <<"n", "a", "n">> ELSE cell

\* df[col].isna() | (df[col].astype(str).str.strip() == ""), for one row.
IsBlank(row, col) ==
    IF col = "Qty" THEN row.QtyCell = "nan"
    ELSE row[col] = NaN \/ Strip(row[col]) = <<>>

\* The columns checked for blanks, in the order of the loop.
KeyColumns == <<"CustomerNumber", "ItemCode", "UPCCode", "Qty">>

\* One "rows have blank" error for each key column with a blank row.
BlankErrors(frame) ==
    LET blanks(col) == Cardinality({i \in 1..Len(frame) : IsBlank(frame[i], col)})
        all == [k \in 1..Len(KeyColumns) |-> InputError("blank", <<KeyColumns[k]>>, <<NatToStr(blanks(KeyColumns[k]))>>)]
    IN  SelectSeq(all, LAMBDA e : e.values # <<NatToStr(0)>>)

\* set(df["Categories"].unique()) - set(MSA_CATEGORY_CODES.keys())
UnknownCategories(frame) ==
    SelectSeq(DropDuplicates(Column(frame, "Categories")),
              LAMBDA c : \A k \in 1..Len(MSA_CATEGORY_CODES) : MSA_CATEGORY_CODES[k][1] # c)

\* pd.to_numeric(df["Qty"]) raises for text that is no number.
QtyErrors(frame) ==
    IF \E i \in 1..Len(frame) : frame[i].QtyCell = "text"
    THEN <<InputError("non_numeric", <<"Qty">>, <<>>)>>
    ELSE <<>>

\* The unique dates fmt_date raises ValueError for, as str() prints them.
DateErrors(frame) ==
    LET texts == [i \in 1..Len(frame) |-> StrOf(frame[i].Date)]
        bad_dates == SelectSeq(DropDuplicates(texts), LAMBDA t : fmt_date(t) = ValueError)
    IN  IF bad_dates # <<>> THEN <<InputError("unparseable", <<"Date">>, bad_dates)>> ELSE <<>>

\* df["UPCCode"].astype(str).str.len(): NaN prints as "nan", and a column
\* that holds a NaN is a float column whose numbers print with ".0".
UpcLengths(frame) ==
    LET has_nan == \E i \in 1..Len(frame) : frame[i].UPCCode = NaN
    IN  [i \in 1..Len(frame) |->
            IF frame[i].UPCCode = NaN THEN Len(<<"n", "a", "n">>)
            ELSE Len(frame[i].UPCCode) + (IF has_nan THEN Len(<<".", "0">>) ELSE 0)]

UpcWarnings(frame) ==
    LET upc_lengths == UpcLengths(frame)
        short_upcs == SelectSeq(upc_lengths, LAMBDA n : n < 12)
        long_upcs == SelectSeq(upc_lengths, LAMBDA n : n > 14)
    IN  (IF Len(short_upcs) > 0 THEN <<InputError("short", <<"UPCCode">>, <<NatToStr(Len(short_upcs))>>)>> ELSE <<>>)
        \o (IF Len(long_upcs) > 0 THEN <<InputError("long", <<"UPCCode">>, <<NatToStr(Len(long_upcs))>>)>> ELSE <<>>)

\* A variant that reports the UPC lengths as errors.
CheckValuesUpcFatal(frame) ==
    LET unknown == UnknownCategories(frame)
    IN  IF \E k \in 1..Len(unknown) : unknown[k] = NaN THEN Raised("TypeError")
        ELSE Returned(ValidationResult(
                BlankErrors(frame)
                \o (IF unknown # <<>> THEN <<InputError("unknown", <<"Categories">>, SortedKeys(unknown))>> ELSE <<>>)
                \o QtyErrors(frame)
                \o DateErrors(frame)
                \o UpcWarnings(frame),
                <<>>))

\* The checks that follow the column check. ', '.join raises TypeError when
\* an unknown category is NaN, which is a float and no str.
CheckValues(frame) ==
    LET unknown == UnknownCategories(frame)
    IN  IF \E k \in 1..Len(unknown) : unknown[k] = NaN THEN Raised("TypeError")
        ELSE Returned(ValidationResult(
                BlankErrors(frame)
                \o (IF unknown # <<>> THEN <<InputError("unknown", <<"Categories">>, SortedKeys(unknown))>> ELSE <<>>)
                \o QtyErrors(frame)
                \o DateErrors(frame),
                UpcWarnings(frame)))

\* A variant that reports every missing column as an error of its own.
validate_input_error_per_column(frame) ==
    LET missing == MissingColumns(frame)
    IN  IF missing # <<>>
        THEN Returned(ValidationResult([k \in 1..Len(missing) |-> InputError("missing", <<missing[k]>>, <<>>)], <<>>))
        ELSE CheckValues(frame)

validate_input(frame) ==
    LET missing == MissingColumns(frame)
    IN  IF missing # <<>>
        THEN Returned(ValidationResult(<<InputError("missing", missing, <<>>)>>, <<>>))
        ELSE CheckValues(frame)

(***************************************************************************)
(* cli.py: convert, from validate_input to write_msa.                      *)
(***************************************************************************)
\* The frame without the columns cols.
DropColumns(frame, cols) ==
    [i \in 1..Len(frame) |-> [c \in (DOMAIN frame[i]) \ cols |-> frame[i][c]]]

\* The row every other row of a conversion departs from in one cell.
SoundRow == Row(<<"C", "0", "4", "0", "0", "2">>, <<"S", "T", "O", "R", "E", " ", "A">>, <<"1", "0", "0", " ", "M", "a", "i", "n", " ", "S", "t">>, <<"F", "F", "1", "0", "0", "B">>, 570, <<"1", "/", "1", "6", "/", "2", "0", "2", "6">>, <<"N", "o">>, 5983)

\* Rows of a conversion: two sound rows, one whose quantity overflows the
\* PUR quantity field, one whose UPC is too long and one whose UPC is too
\* short, one for each way a cell fails validate_input, and one that fails
\* four checks at once.
CliRowInputs ==
    {SoundRow,
     Row(<<"C", "0", "3", "2", "1", "8">>, <<"S", "T", "O", "R", "E", " ", "B">>, <<"2", "0", "0", " ", "O", "a", "k", " ", "A", "v", "e">>, <<"S", "M", "O", "1", "0", "0", "B", "X">>, 100, <<"1", "/", "1", "3", "/", "2", "0", "2", "6">>, <<"Y", "e", "s">>, 2000),
     [SoundRow EXCEPT !.Qty = 100000000],
     [SoundRow EXCEPT !.UPCCode = <<"8", "1", "2", "6", "1", "5", "0", "0", "6", "7", "0", "0", "1", "2", "3">>],
     [SoundRow EXCEPT !.UPCCode = <<"8", "1", "2", "6", "1", "5", "0", "0", "6", "7", "0">>],
     [SoundRow EXCEPT !.CustomerNumber = <<" ">>],
     [SoundRow EXCEPT !.Categories = NaN],
     [SoundRow EXCEPT !.Categories = <<"v", "a", "p", "e", "s">>],
     [SoundRow EXCEPT !.Date = <<"n", "/", "a">>],
     [SoundRow EXCEPT !.Date = NaN],
     [SoundRow EXCEPT !.Qty = 0, !.QtyCell = "nan"],
     [SoundRow EXCEPT !.Qty = 0, !.QtyCell = "text"],
     [SoundRow EXCEPT !.UPCCode = NaN],
     [SoundRow EXCEPT !.ItemCode = <<>>, !.Categories = <<"v", "a", "p", "e", "s">>,
                      !.Qty = 0, !.QtyCell = "text", !.Date = <<"n", "/", "a">>]}

\* The columns a frame may lack: none, one, or two.
ColumnDrops == {{}, {"Zip"}, {"Qty", "Date"}}

InitCli ==
    /\ df \in {DropColumns(frame, cols) : frame \in Frames(CliRowInputs), cols \in ColumnDrops}
    /\ config = DistributorConfig(<<"T", "E", "S", "T", " ", "D", "I", "S", "T">>, TRUE)
    /\ now = Date(2026, 1, 20)
    /\ pc = "validate_input"
    /\ Idle

\* input_result = validate_input(df); sys.exit(1) if it is not valid. An
\* exception that nothing catches ends the process with status 1.
CliValidateInput ==
    /\ pc = "validate_input"
    /\ \E outcome \in {validate_input(df)} :
            /\ input_result' = outcome
            /\ pc' = IF outcome[1] = "raise" THEN "crashed"
                     ELSE IF is_valid(outcome[2]) THEN "build" ELSE "exit"
            /\ exit_status' = IF outcome[1] = "ok" /\ is_valid(outcome[2]) THEN <<>> ELSE <<1>>
    /\ UNCHANGED <<df, config, now, hid, bids, sids, purs, tot, output_result, rec, line, written, data, again>>

\* sys.exit(1) if output_result is not valid.
CliAbortOnOutputErrors ==
    /\ pc = "validated"
    /\ ~is_valid(output_result)
    /\ exit_status' = <<1>>
    /\ pc' = "exit"
    /\ UNCHANGED <<df, config, now, hid, bids, sids, purs, tot, output_result, rec, line, input_result, written, data, again>>

\* A variant that writes whatever validate_output reported.
CliWriteMsaRegardless ==
    /\ pc = "validated"
    /\ \E encoding \in FileEncodings : written' = write_msa(hid, bids, sids, purs, tot, encoding)
    /\ exit_status' = <<0>>
    /\ pc' = "done"
    /\ UNCHANGED <<df, config, now, hid, bids, sids, purs, tot, output_result, rec, line, input_result, data, again>>

\* write_msa(output, hid, bids, sids, purs, tot), and the normal return.
CliWriteMsa ==
    /\ pc = "validated"
    /\ is_valid(output_result)
    /\ \E encoding \in FileEncodings : written' = write_msa(hid, bids, sids, purs, tot, encoding)
    /\ exit_status' = <<0>>
    /\ pc' = "done"
    /\ UNCHANGED <<df, config, now, hid, bids, sids, purs, tot, output_result, rec, line, input_result, data, again>>

NextCli == CliValidateInput \/ BuildRecords \/ ValidateOutput \/ CliAbortOnOutputErrors \/ CliWriteMsa

SpecCli == InitCli /\ [][NextCli]_vars

(***************************************************************************)
(* Properties of a conversion run and of validate_input.                   *)
(***************************************************************************)
\* validate_input has been called, and what it reported.
InputValidated == input_result # <<>>

InputReturned == InputValidated /\ input_result[1] = "ok"

InputErrors == IF InputReturned THEN input_result[2].errors ELSE <<>>

OutputErrors == IF output_result # <<>> THEN output_result.errors ELSE <<>>

\* The steps of a run that have happened.
HasBuilt == tot # <<>>

HasValidatedOutput == output_result # <<>>

HasWritten == written # <<>>

\* What holds at every moment of a run: a later step has happened only after
\* the earlier ones, and only after validations that reported no error; once
\* a validation has reported an error nothing further is built or written and
\* the run has status 1 as soon as it has left the validation.
CliOrder ==
    /\ HasBuilt => InputReturned /\ InputErrors = <<>>
    /\ HasValidatedOutput => HasBuilt
    /\ HasWritten => HasValidatedOutput /\ OutputErrors = <<>> /\ InputErrors = <<>>
    /\ InputErrors # <<>> => ~HasBuilt /\ ~HasValidatedOutput /\ ~HasWritten /\ exit_status = <<1>>
    /\ OutputErrors # <<>> => ~HasWritten /\ (pc = "validated" \/ exit_status = <<1>>)
    /\ exit_status = <<0>> <=> HasWritten

\* What holds of every step of a run: after an output validation that
\* reported an error the next step is the exit with status 1, and a run that
\* has exited takes no further step.
CliStep ==
    /\ (pc = "validated" /\ OutputErrors # <<>>) => exit_status' = <<1>> /\ written' = <<>>
    /\ exit_status = <<>>

\* C18: in a CLI conversion run the steps occur in the order validate_input,
\* build_records, validate_output, write_msa; write_msa is called only if both
\* validation results have no errors; if either validation reports an error
\* the run exits with status 1 without building further or writing output.
C18_CliStepsInOrder == [](CliOrder) /\ [][CliStep]_vars

\* A run that validate_output stopped: the input was valid, the records were
\* built, the output validation reported an error, and the run has exited
\* with status 1 and nothing written.
C18_Witness ==
    /\ pc = "exit"
    /\ InputReturned /\ InputErrors = <<>>
    /\ HasBuilt /\ OutputErrors # <<>>
    /\ exit_status = <<1>> /\ ~HasWritten

\* C19: validate_input and validate_output never raise: every problem of a
\* row, a missing (NaN) category, date, quantity or UPC included, is an error
\* or a warning of the returned result.
C19_ValidatorsNeverRaise == InputValidated => InputReturned

\* The required columns the frame lacks.
Lacking == {REQUIRED_COLUMNS[k] : k \in 1..Len(REQUIRED_COLUMNS)} \ DOMAIN df[1]

\* A row of the frame has a cell that one of the remaining checks reports.
HasCellProblem ==
    \E i \in 1..Len(df) :
        \/ df[i].CustomerNumber = <<" ">>
        \/ df[i].Categories \in {NaN, <<"v", "a", "p", "e", "s">>}
        \/ df[i].UPCCode = NaN
        \/ Len(df[i].UPCCode) > 14

\* C20: when one or more required columns are missing, validate_input returns
\* a result with exactly one error, which names the missing columns, and no
\* warnings; none of the remaining checks is performed.
C20_MissingColumnsShortCircuit ==
    (InputValidated /\ Lacking # {}) =>
        /\ InputReturned
        /\ Len(input_result[2].errors) = 1
        /\ input_result[2].errors[1].check = "missing"
        /\ {input_result[2].errors[1].columns[k] : k \in 1..Len(input_result[2].errors[1].columns)} = Lacking
        /\ Len(input_result[2].errors[1].columns) = Cardinality(Lacking)
        /\ input_result[2].warnings = <<>>

\* The result for a frame that lacks two columns and has a row the remaining
\* checks would report, or raise for.
C20_Witness ==
    /\ InputValidated
    /\ Cardinality(Lacking) = 2
    /\ HasCellProblem
    /\ \E i \in 1..Len(df) : df[i].Categories = NaN
    /\ InputReturned
    /\ Len(input_result[2].errors) = 1

\* The cell is a category the code table maps.
MappedCategory(cell) == \E k \in 1..Len(MSA_CATEGORY_CODES) : MSA_CATEGORY_CODES[k][1] = cell

\* The cell is a date text of the calendar.
CalendarDate(cell) == \E k \in 1..Len(DateTable) : DateTable[k][1] = cell

\* The failures of the frame's cells, as <<check, column>>: a blank key
\* field, an unmapped category, a quantity that is no number, a date that is
\* no date.
CellFailures ==
    {<<"blank", c>> : c \in {c \in {"CustomerNumber", "ItemCode", "UPCCode"} :
                                \E i \in 1..Len(df) : df[i][c] \in {NaN, <<>>, <<" ">>}}}
    \cup {<<"blank", "Qty">> : i \in {i \in 1..Len(df) : df[i].QtyCell = "nan"}}
    \cup {<<"unknown", "Categories">> : i \in {i \in 1..Len(df) : ~MappedCategory(df[i].Categories)}}
    \cup {<<"non_numeric", "Qty">> : i \in {i \in 1..Len(df) : df[i].QtyCell = "text"}}
    \cup {<<"unparseable", "Date">> : i \in {i \in 1..Len(df) : ~CalendarDate(df[i].Date)}}

\* The errors of the result are the failures of the cells, one error each.
ErrorsAreCellFailures ==
    /\ {<<InputErrors[k].check, InputErrors[k].columns[1]>> : k \in 1..Len(InputErrors)} = CellFailures
    /\ Len(InputErrors) = Cardinality(CellFailures)

\* C21: when all required columns are present, validate_input runs all
\* semantic checks and collects every failure: a blank required field, an
\* unmapped category, a non-numeric quantity and an unparseable date each
\* contribute their own error to the same result, and an earlier failing
\* check never suppresses a later one.
C21_EveryFailureCollected ==
    (InputValidated /\ Lacking = {}) => InputReturned /\ ErrorsAreCellFailures

\* The same, of the calls that return.
CollectedWhenReturned ==
    (InputReturned /\ Lacking = {}) => ErrorsAreCellFailures

\* The only problem of the frame is the length of a UPC code: every row is
\* the sound row but for a UPC of fewer than 12 or more than 14 digits.
OnlyUpcLengthProblem ==
    /\ DOMAIN df[1] = DOMAIN SoundRow
    /\ \A i \in 1..Len(df) :
            /\ df[i].UPCCode # NaN
            /\ [df[i] EXCEPT !.UPCCode = SoundRow.UPCCode] = SoundRow
    /\ \E i \in 1..Len(df) : Len(df[i].UPCCode) \notin 12..14

\* C22: a UPC code whose length is outside [12,14] only adds a warning, never
\* an error: a row set whose only problem is UPC length yields a valid result
\* that carries the warning, and the conversion proceeds to the written file.
C22_UpcLengthOnlyWarns ==
    /\ \A k \in 1..Len(InputErrors) : InputErrors[k].check \notin {"short", "long"}
    /\ (InputValidated /\ OnlyUpcLengthProblem) =>
            /\ InputReturned
            /\ is_valid(input_result[2])
            /\ input_result[2].warnings # <<>>
            /\ \A k \in 1..Len(input_result[2].warnings) :
                    input_result[2].warnings[k].check \in {"short", "long"}
            /\ pc \in {"build", "validate_output", "validated", "done"}
            /\ exit_status # <<1>>
            /\ OutputErrors = <<>>

\* A frame with a short and a long UPC code as its only problems, converted
\* and written.
C22_Witness ==
    /\ InputReturned
    /\ OnlyUpcLengthProblem
    /\ \E i \in 1..Len(df) : Len(df[i].UPCCode) < 12
    /\ \E i \in 1..Len(df) : Len(df[i].UPCCode) > 14
    /\ Len(input_result[2].warnings) = 2
    /\ pc = "done" /\ HasWritten /\ exit_status = <<0>>

(***************************************************************************)
(* Two invocations of build_records on the same rows and configuration.    *)
(***************************************************************************)
InitTwice ==
    /\ df \in Frames(DateRowInputs)
    /\ \E env \in Environments : config = env[1] /\ now = env[2]
    /\ pc = "build"
    /\ Idle

\* Between the invocations the clock stays within the day or passes midnight.
TimePasses ==
    /\ pc = "validate_output"
    /\ now' \in {now, NextDay(now)}
    /\ pc' = "build_again"
    /\ UNCHANGED <<df, config, hid, bids, sids, purs, tot, output_result, rec, line>>
    /\ UNCHANGED run_vars

\* The second build_records(df, config).
BuildRecordsAgain ==
    /\ pc = "build_again"
    /\ again' = build_records(df, config, now)
    /\ pc' = "built_twice"
    /\ UNCHANGED <<df, config, now, hid, bids, sids, purs, tot, output_result, rec, line>>
    /\ UNCHANGED <<input_result, written, data, exit_status>>

NextTwice == BuildRecords \/ TimePasses \/ BuildRecordsAgain

SpecTwice == InitTwice /\ [][NextTwice]_vars

\* C23: a conversion run is a pure function of (rows, configuration): two
\* invocations of build_records with the same rows and the same configuration
\* return identical header, brand, ship-to, purchase and total records,
\* whenever they are run.
C23_BuildIsPure ==
    pc = "built_twice" =>
        /\ again.hid = hid
        /\ again.bids = bids
        /\ again.sids = sids
        /\ again.purs = purs
        /\ again.tot = tot

\* The same, of every record but the header's creation date.
PureButCreationDate ==
    pc = "built_twice" =>
        /\ [again.hid EXCEPT !.creation_date = hid.creation_date] = hid
        /\ again.bids = bids /\ again.sids = sids /\ again.purs = purs /\ again.tot = tot

(***************************************************************************)
(* The optional dollars measure of purchase and total records.             *)
(***************************************************************************)
\* The measure's two-decimal text fits a field of 11 columns, sign included.
FitsEleven(x) ==
    /\ x.billions = 0
    /\ x.whole <= (IF x.neg THEN 9999999 ELSE 99999999)

\* An encoded purchase or total record, its dollars value (NoFloat when
\* absent), and where its measure 2 lies on the line when the measures
\* before it fit their fields.
EncodedWithDollars ==
    /\ pc = "encoded"
    /\ rec.kind \in {"PUR", "TOT"}
    /\ FitsEleven(IF rec.kind = "PUR" THEN rec.quantity ELSE rec.total_quantity)

DollarsOf == IF rec.kind = "PUR" THEN rec.dollars ELSE rec.total_dollars

CodeSlot == IF rec.kind = "PUR" THEN <<117, 119>> ELSE <<105, 107>>

ValueSlot == IF rec.kind = "PUR" THEN <<120, 130>> ELSE <<108, 122>>

Blank(text) == \A i \in 1..Len(text) : text[i] = " "

\* The slots are blank when the value is absent; the code slot is "002" when
\* it is present.
DollarsSlots ==
    IF DollarsOf = NoFloat
    THEN /\ Blank(SubSeq(line, CodeSlot[1], CodeSlot[2]))
         /\ Blank(SubSeq(line, ValueSlot[1], ValueSlot[2]))
    ELSE SubSeq(line, CodeSlot[1], CodeSlot[2]) = <<"0", "0", "2">>

\* C24: on purchase and total records the dollars measure is encoded only
\* when a value is supplied: absent, its code slot and its value slot are
\* blank-filled; present, the code slot is "002"; in both cases the line
\* keeps its fixed width, 130 for purchase and 140 for total.
C24_OptionalDollars ==
    EncodedWithDollars =>
        /\ DollarsSlots
        /\ Len(line) = (IF rec.kind = "PUR" THEN 130 ELSE 140)

\* The same, of the records whose dollars value, when present, fits its field.
OptionalDollarsWhenFitting ==
    (EncodedWithDollars /\ (DollarsOf # NoFloat => FitsEleven(DollarsOf[1]))) =>
        /\ DollarsSlots
        /\ Len(line) = (IF rec.kind = "PUR" THEN 130 ELSE 140)

\* The slots alone, of every record.
DollarsSlotsAlways == EncodedWithDollars => DollarsSlots

(***************************************************************************)
(* Properties of the built ship-to and purchase records.                   *)
(***************************************************************************)
\* The cash/carry indicator of a row's CashCarry text.
CashCarryOf(r) == IF r.CashCarry = <<"Y", "e", "s">> THEN <<"Y">> ELSE <<"N">>

\* C25: each ship-to record's class_of_trade and cash_carry_indicator are
\* taken from a row of that record's own location: a row whose customer
\* number, name, address, city, state and zip equal the record's.
C25_SidFieldsFromOwnLocation ==
    Built =>
        \A j \in 1..Len(sids) :
            \E i \in 1..Len(df) :
                /\ RowLocation(df[i]) = SidLocation(sids[j])
                /\ sids[j].class_of_trade = df[i].ClassOfTrade
                /\ sids[j].cash_carry_indicator = CashCarryOf(df[i])

\* The same, of the frames in which no two locations share customer number,
\* address and city.
SidFieldsWhenMaskSeparates ==
    (Built /\ \A i, k \in 1..Len(df) :
                (df[i].CustomerNumber = df[k].CustomerNumber /\ df[i].Address = df[k].Address)
                    => RowLocation(df[i]) = RowLocation(df[k])) =>
        \A j \in 1..Len(sids) :
            \E i \in 1..Len(df) :
                /\ RowLocation(df[i]) = SidLocation(sids[j])
                /\ sids[j].class_of_trade = df[i].ClassOfTrade
                /\ sids[j].cash_carry_indicator = CashCarryOf(df[i])

\* C26: quantity is conserved by aggregation: the sum of quantity over the
\* purchase records, and with it tot.total_quantity, equals the sum of Qty
\* over all rows; no row's quantity is dropped or counted more than once.
C26_QuantityConserved ==
    Built =>
        /\ FieldTotal(purs, "quantity", Len(purs)) = 100 * QtyOver(1..Len(df))
        /\ Cents(tot.total_quantity) = 100 * QtyOver(1..Len(df))

\* The same, of the frames in which no two locations share customer number,
\* address and city.
QuantityConservedWhenMaskSeparates ==
    (Built /\ \A i, k \in 1..Len(df) :
                (df[i].CustomerNumber = df[k].CustomerNumber /\ df[i].Address = df[k].Address)
                    => RowLocation(df[i]) = RowLocation(df[k])) =>
        /\ FieldTotal(purs, "quantity", Len(purs)) = 100 * QtyOver(1..Len(df))
        /\ Cents(tot.total_quantity) = 100 * QtyOver(1..Len(df))

\* The rows in the order a permutation of their indices gives.
Reordered(order) == [i \in 1..Len(df) |-> df[order[i]]]

\* A lookup as a mapping: its set of <<location key, shipping number>>.
Mapping(lookup) == {lookup[i] : i \in 1..Len(lookup)}

\* C27: the shipping number of each location depends only on the set of rows,
\* not on their order: for any permutation of the rows _build_sid_lookup
\* returns the same location-to-number mapping.
C27_LookupIgnoresRowOrder ==
    Built =>
        \A order \in Permutations(1..Len(df)) :
            Mapping(_build_sid_lookup(Reordered(order))) = Mapping(_build_sid_lookup(df))

\* The same, of the frames in which no two locations share customer number
\* and address, the sort key.
LookupIgnoresOrderWithoutTies ==
    (Built /\ \A i, k \in 1..Len(df) :
                (df[i].CustomerNumber = df[k].CustomerNumber /\ df[i].Address = df[k].Address)
                    => RowLocation(df[i]) = RowLocation(df[k])) =>
        \A order \in Permutations(1..Len(df)) :
            Mapping(_build_sid_lookup(Reordered(order))) = Mapping(_build_sid_lookup(df))

\* C28: referential integrity of the built records: each purchase record's
\* (customer_number, shipping_number) equals that of exactly one ship-to
\* record, and its sku equals the sku of exactly one brand record.
C28_ReferentialIntegrity ==
    Built =>
        \A i \in 1..Len(purs) :
            /\ Cardinality({j \in 1..Len(sids) :
                    /\ sids[j].customer_number = purs[i].customer_number
                    /\ sids[j].shipping_number = purs[i].shipping_number}) = 1
            /\ Cardinality({j \in 1..Len(bids) : bids[j].sku = purs[i].sku}) = 1

\* Built records of three rows: two locations of one customer, numbered 1
\* and 2, with a purchase each, a third purchase of another item, and two
\* brand records.
C28_Witness ==
    /\ Built
    /\ Len(sids) = 2 /\ sids[1].customer_number = sids[2].customer_number
    /\ sids[1].shipping_number # sids[2].shipping_number
    /\ Len(purs) = 3 /\ Len(bids) = 2
    /\ \E i \in 1..3 : purs[i].shipping_number = ShippingNumber(2)

(***************************************************************************)
(* build_records after validate_input, as convert runs them.               *)
(***************************************************************************)
\* Frames of sound rows, with every column or without one that
\* REQUIRED_COLUMNS does not name, and the frame without rows.
InitBuild ==
    /\ df \in {DropColumns(frame, cols) :
                    frame \in Frames({SoundRow,
                                      [SoundRow EXCEPT !.Address = <<"2", "0", "0", " ", "O", "a", "k", " ", "A", "v", "e">>],
                                      [SoundRow EXCEPT !.ItemCode = <<"S", "M", "O", "1", "0", "0", "B", "X">>, !.Qty = 100]}),
                    cols \in {{}, {"Invoice"}, {"ClassOfTrade"}}}
               \cup {<<>>}
    /\ config = DistributorConfig(<<"T", "E", "S", "T", " ", "D", "I", "S", "T">>, TRUE)
    /\ now = Date(2026, 1, 20)
    /\ pc = "validate_input"
    /\ Idle

NextBuild == CliValidateInput \/ BuildRecords

SpecBuild == InitBuild /\ [][NextBuild]_vars

\* C29: input validation is sufficient for building: for every row set, the
\* empty one included, for which validate_input returns no errors,
\* build_records completes and returns records without raising.
C29_ValidInputBuilds ==
    (InputReturned /\ InputErrors = <<>>) => pc # "crashed"

\* The same, of the frames that have rows and the Invoice and ClassOfTrade
\* columns.
ValidInputBuildsWithAllColumns ==
    (InputReturned /\ InputErrors = <<>> /\ df # <<>>
        /\ {"Invoice", "ClassOfTrade"} \subseteq DOMAIN df[1]) =>
        pc \in {"build", "validate_output"}

====
